---- MODULE Spec2Model ----
(***************************************************************************)
(* clash-sub-merger: the name sanitizer and country classifier, the        *)
(* aggregation pass and the group synthesizer of merge_config.py, and the  *)
(* link decoders of server.py and merge_config.py.                         *)
(*                                                                         *)
(* A Python str is modelled as the sequence of its code points; an ASCII   *)
(* code point is the one-character string itself and any other code point  *)
(* is written "uXXXX" (hexadecimal), so "US" is <<"U", "S">> and the flag  *)
(* of Japan is <<"u1F1EF", "u1F1F5">>.  None and "" are both <<>> where    *)
(* the code only tests truthiness.  The backslash and the backquote are    *)
(* written "u005C" and "u0060".                                            *)
(***************************************************************************)
EXTENDS Integers, Sequences, FiniteSets, TLC

VARIABLES
    GEOIP_AVAILABLE,    \* merge_config.GEOIP_AVAILABLE: whether geoip2 could be imported
    patterns_added,     \* the entries identify_country has appended to CountryGrouper.COUNTRY_PATTERNS
    geoip_cache,        \* GeoIPLookup._geoip_cache: server -> country code
    all_proxies,        \* ConfigMerger.all_proxies: the aggregated record list
    country_groups,     \* the dict group_by_country returned, <<label, names>> in insertion order
    proxy_groups,       \* the list generate_groups returned
    heap,               \* the dict objects alive, by object identity
    input,              \* the arguments of the call under study
    ret,                \* what that call returned
    pc                  \* where the running operation stands

\* ------------------------------------------------------------------------
\* str methods

Min(S) == CHOOSE i \in S : \A j \in S : i <= j

StartsWith(s, p) == Len(p) <= Len(s) /\ SubSeq(s, 1, Len(p)) = p

OccursAt(s, p, i) == i >= 1 /\ i + Len(p) - 1 <= Len(s) /\ SubSeq(s, i, i + Len(p) - 1) = p

Contains(s, p) == \E i \in 1..(Len(s) - Len(p) + 1) : OccursAt(s, p, i)

\* s.replace(old, new): non-overlapping occurrences, scanned left to right.
RECURSIVE ReplaceFrom(_, _, _, _)
ReplaceFrom(s, old, new, i) ==
    IF i > Len(s) THEN <<>>
    ELSE IF OccursAt(s, old, i) THEN new \o ReplaceFrom(s, old, new, i + Len(old))
    ELSE <<s[i]>> \o ReplaceFrom(s, old, new, i + 1)

Replace(s, old, new) == ReplaceFrom(s, old, new, 1)

Whitespace == {" ", "\t", "\n"}

\* ' '.join(s.split()): g = 0 before the first word, 1 inside a word, 2 after
\* whitespace that follows a word.
RECURSIVE JoinSplitFrom(_, _, _)
JoinSplitFrom(s, i, g) ==
    IF i > Len(s) THEN <<>>
    ELSE IF s[i] \in Whitespace THEN JoinSplitFrom(s, i + 1, IF g = 0 THEN 0 ELSE 2)
    ELSE (IF g = 2 THEN <<" ", s[i]>> ELSE <<s[i]>>) \o JoinSplitFrom(s, i + 1, 1)

JoinSplit(s) == JoinSplitFrom(s, 1, 0)

LOWER ==
    <<"a", "b", "c", "d", "e", "f", "g", "h", "i", "j", "k", "l", "m",
      "n", "o", "p", "q", "r", "s", "t", "u", "v", "w", "x", "y", "z">>

UPPER ==
    <<"A", "B", "C", "D", "E", "F", "G", "H", "I", "J", "K", "L", "M",
      "N", "O", "P", "Q", "R", "S", "T", "U", "V", "W", "X", "Y", "Z">>

UPPER_LETTERS == {UPPER[i] : i \in 1..Len(UPPER)}

LOWER_LETTERS == {LOWER[i] : i \in 1..Len(LOWER)}

IsUpperLetter(c) == c \in UPPER_LETTERS

IsLetter(c) == c \in UPPER_LETTERS \/ c \in LOWER_LETTERS

LowerToUpper == [c \in LOWER_LETTERS |-> UPPER[CHOOSE i \in 1..Len(LOWER) : LOWER[i] = c]]

UpperChar(c) == IF c \in LOWER_LETTERS THEN LowerToUpper[c] ELSE c

\* s.upper()
Upper(s) == [i \in 1..Len(s) |-> UpperChar(s[i])]

\* dict.get(key, default) on a dict kept as a sequence of <<key, value>> pairs.
DictHas(d, k) == \E i \in 1..Len(d) : d[i][1] = k

DictGet(d, k, default) ==
    IF DictHas(d, k) THEN d[CHOOSE i \in 1..Len(d) : d[i][1] = k][2] ELSE default

\* ------------------------------------------------------------------------
\* the tables

\* NameTransformer.FLAG_EMOJIS (merge_config.py:471-483), in list order; a string is the
\* sequence of its code points, a non-ASCII code point written "uXXXX".

FLAG_EMOJIS ==
  <<
    <<"u1F1ED", "u1F1F0">>, <<"u1F1F9", "u1F1FC">>, <<"u1F1EF", "u1F1F5">>, <<"u1F1FA", "u1F1F8">>, <<"u1F1F8", "u1F1EC">>,
    <<"u1F1F0", "u1F1F7">>, <<"u1F1EC", "u1F1E7">>, <<"u1F1E9", "u1F1EA">>, <<"u1F1E8", "u1F1E6">>, <<"u1F1E6", "u1F1FA">>,
    <<"u1F1EB", "u1F1F7">>, <<"u1F1F7", "u1F1FA">>, <<"u1F1EE", "u1F1F3">>, <<"u1F1F3", "u1F1F1">>, <<"u1F1F9", "u1F1F7">>,
    <<"u1F1E6", "u1F1F6">>, <<"u1F1F2", "u1F1FE">>, <<"u1F1EA", "u1F1F8">>, <<"u1F1FB", "u1F1F3">>, <<"u1F1FA", "u1F1E6">>,
    <<"u1F1F2", "u1F1E9">>, <<"u1F1F3", "u1F1EC">>, <<"u1F1E7", "u1F1F7">>, <<"u1F1EE", "u1F1F9">>, <<"u1F1F5", "u1F1F1">>,
    <<"u1F1E8", "u1F1ED">>, <<"u1F1E6", "u1F1F9">>, <<"u1F1E7", "u1F1EA">>, <<"u1F1F8", "u1F1EA">>, <<"u1F1F3", "u1F1F4">>,
    <<"u1F1E9", "u1F1F0">>, <<"u1F1EB", "u1F1EE">>, <<"u1F1EE", "u1F1EA">>, <<"u1F1F5", "u1F1F9">>, <<"u1F1EC", "u1F1F7">>,
    <<"u1F1E8", "u1F1FF">>, <<"u1F1ED", "u1F1FA">>, <<"u1F1F7", "u1F1F4">>, <<"u1F1E7", "u1F1EC">>, <<"u1F1ED", "u1F1F7">>,
    <<"u1F1F8", "u1F1F0">>, <<"u1F1F8", "u1F1EE">>, <<"u1F1F1", "u1F1F9">>, <<"u1F1F1", "u1F1FB">>, <<"u1F1EA", "u1F1EA">>,
    <<"u1F1EE", "u1F1F1">>, <<"u1F1E6", "u1F1EA">>, <<"u1F1F8", "u1F1E6">>, <<"u1F1F6", "u1F1E6">>, <<"u1F1F0", "u1F1FC">>,
    <<"u1F1F4", "u1F1F2">>, <<"u1F1E7", "u1F1ED">>, <<"u1F1EF", "u1F1F4">>, <<"u1F1F1", "u1F1E7">>, <<"u1F1EA", "u1F1EC">>,
    <<"u1F1FF", "u1F1E6">>, <<"u1F1F0", "u1F1EA">>, <<"u1F1F3", "u1F1FF">>, <<"u1F1F5", "u1F1ED">>, <<"u1F1F9", "u1F1ED">>,
    <<"u1F1EE", "u1F1E9">>, <<"u1F1F5", "u1F1F0">>, <<"u1F1E7", "u1F1E9">>, <<"u1F1F1", "u1F1F0">>, <<"u1F1F3", "u1F1F5">>,
    <<"u1F1F2", "u1F1F2">>, <<"u1F1F0", "u1F1ED">>, <<"u1F1F1", "u1F1E6">>, <<"u1F1F2", "u1F1F3">>, <<"u1F1F0", "u1F1FF">>,
    <<"u1F1FA", "u1F1FF">>, <<"u1F1E6", "u1F1FF">>, <<"u1F1EC", "u1F1EA">>, <<"u1F1E6", "u1F1F2">>, <<"u1F1E8", "u1F1FE">>,
    <<"u1F1F2", "u1F1F9">>, <<"u1F1EE", "u1F1F8">>, <<"u1F1F1", "u1F1FA">>, <<"u1F1F2", "u1F1E8">>, <<"u1F1E6", "u1F1E9">>,
    <<"u1F1F1", "u1F1EE">>, <<"u1F1F8", "u1F1F2">>, <<"u1F1FB", "u1F1E6">>, <<"u1F1F2", "u1F1FD">>, <<"u1F1E6", "u1F1F7">>,
    <<"u1F1E8", "u1F1F1">>, <<"u1F1E8", "u1F1F4">>, <<"u1F1F5", "u1F1EA">>, <<"u1F1FB", "u1F1EA">>, <<"u1F1EA", "u1F1E8">>,
    <<"u1F1E7", "u1F1F4">>, <<"u1F1F5", "u1F1FE">>, <<"u1F1FA", "u1F1FE">>, <<"u1F1E8", "u1F1F7">>, <<"u1F1F5", "u1F1E6">>,
    <<"u1F1E8", "u1F1FA">>, <<"u1F1E9", "u1F1F4">>, <<"u1F1F5", "u1F1F7">>, <<"u1F1EF", "u1F1F2">>, <<"u1F1ED", "u1F1F9">>,
    <<"u1F530">>, <<"u1F30F">>, <<"u1F30D">>, <<"u1F30E">>, <<"u1F3F3", "uFE0F">> >>

\* NameTransformer.COUNTRY_FLAG_MAP (merge_config.py:486-532): <<flag, patterns>> in dict order.

COUNTRY_FLAG_MAP ==
  <<
    <<<<"u1F1ED", "u1F1F0">>, <<<<"H", "K">>, <<"H", "o", "n", "g", " ", "K", "o", "n", "g">>, <<"u9999", "u6E2F">>, <<"H", "o", "n", "g", "k", "o", "n", "g">>>> >>,
    <<<<"u1F1F9", "u1F1FC">>, <<<<"T", "W">>, <<"T", "a", "i", "w", "a", "n">>, <<"u53F0", "u6E7E">>, <<"T", "a", "i", "p", "e", "i">>>> >>,
    <<<<"u1F1EF", "u1F1F5">>, <<<<"J", "P">>, <<"J", "a", "p", "a", "n">>, <<"u65E5", "u672C">>, <<"T", "o", "k", "y", "o">>, <<"O", "s", "a", "k", "a">>>> >>,
    <<<<"u1F1FA", "u1F1F8">>, <<<<"U", "S">>, <<"U", "n", "i", "t", "e", "d", " ", "S", "t", "a", "t", "e", "s">>, <<"u7F8E", "u56FD">>, <<"A", "m", "e", "r", "i", "c", "a">>, <<"U", "S", "A">>, <<"L", "o", "s", " ", "A", "n", "g", "e", "l", "e", "s">>, <<"S", "e", "a", "t", "t", "l", "e">>, <<"S", "a", "n", " ", "J", "o", "s", "e">>>> >>,
    <<<<"u1F1F8", "u1F1EC">>, <<<<"S", "G">>, <<"S", "i", "n", "g", "a", "p", "o", "r", "e">>, <<"u65B0", "u52A0", "u5761">>>> >>,
    <<<<"u1F1F0", "u1F1F7">>, <<<<"K", "R">>, <<"K", "o", "r", "e", "a">>, <<"u97E9", "u56FD">>, <<"S", "e", "o", "u", "l">>>> >>,
    <<<<"u1F1EC", "u1F1E7">>, <<<<"G", "B">>, <<"U", "K">>, <<"U", "n", "i", "t", "e", "d", " ", "K", "i", "n", "g", "d", "o", "m">>, <<"u82F1", "u56FD">>, <<"E", "n", "g", "l", "a", "n", "d">>, <<"L", "o", "n", "d", "o", "n">>>> >>,
    <<<<"u1F1E9", "u1F1EA">>, <<<<"D", "E">>, <<"G", "e", "r", "m", "a", "n", "y">>, <<"u5FB7", "u56FD">>, <<"F", "r", "a", "n", "k", "f", "u", "r", "t">>>> >>,
    <<<<"u1F1E8", "u1F1E6">>, <<<<"C", "A">>, <<"C", "a", "n", "a", "d", "a">>, <<"u52A0", "u62FF", "u5927">>, <<"T", "o", "r", "o", "n", "t", "o">>, <<"V", "a", "n", "c", "o", "u", "v", "e", "r">>>> >>,
    <<<<"u1F1E6", "u1F1FA">>, <<<<"A", "U">>, <<"A", "u", "s", "t", "r", "a", "l", "i", "a">>, <<"u6FB3", "u5927", "u5229", "u4E9A">>, <<"u6FB3", "u6D32">>, <<"S", "y", "d", "n", "e", "y">>>> >>,
    <<<<"u1F1EB", "u1F1F7">>, <<<<"F", "R">>, <<"F", "r", "a", "n", "c", "e">>, <<"u6CD5", "u56FD">>, <<"P", "a", "r", "i", "s">>>> >>,
    <<<<"u1F1F7", "u1F1FA">>, <<<<"R", "U">>, <<"R", "u", "s", "s", "i", "a">>, <<"u4FC4", "u7F57", "u65AF">>, <<"M", "o", "s", "c", "o", "w">>>> >>,
    <<<<"u1F1EE", "u1F1F3">>, <<<<"I", "N">>, <<"I", "n", "d", "i", "a">>, <<"u5370", "u5EA6">>>> >>,
    <<<<"u1F1F3", "u1F1F1">>, <<<<"N", "L">>, <<"N", "e", "t", "h", "e", "r", "l", "a", "n", "d", "s">>, <<"u8377", "u5170">>, <<"A", "m", "s", "t", "e", "r", "d", "a", "m">>>> >>,
    <<<<"u1F1F9", "u1F1F7">>, <<<<"T", "R">>, <<"T", "u", "r", "k", "e", "y">>, <<"u571F", "u8033", "u5176">>, <<"I", "s", "t", "a", "n", "b", "u", "l">>>> >>,
    <<<<"u1F1E6", "u1F1F6">>, <<<<"A", "n", "t", "a", "r", "c", "t", "i", "c", "a">>, <<"u5357", "u6781">>>> >>,
    <<<<"u1F1F2", "u1F1FE">>, <<<<"M", "Y">>, <<"M", "a", "l", "a", "y", "s", "i", "a">>, <<"u9A6C", "u6765", "u897F", "u4E9A">>>> >>,
    <<<<"u1F1EA", "u1F1F8">>, <<<<"E", "S">>, <<"S", "p", "a", "i", "n">>, <<"u897F", "u73ED", "u7259">>>> >>,
    <<<<"u1F1FB", "u1F1F3">>, <<<<"V", "N">>, <<"V", "i", "e", "t", "n", "a", "m">>, <<"u8D8A", "u5357">>>> >>,
    <<<<"u1F1FA", "u1F1E6">>, <<<<"U", "A">>, <<"U", "k", "r", "a", "i", "n", "e">>, <<"u4E4C", "u514B", "u5170">>>> >>,
    <<<<"u1F1F2", "u1F1E9">>, <<<<"M", "D">>, <<"M", "o", "l", "d", "o", "v", "a">>, <<"u6469", "u5C14", "u591A", "u74E6">>>> >>,
    <<<<"u1F1F3", "u1F1EC">>, <<<<"N", "G">>, <<"N", "i", "g", "e", "r", "i", "a">>, <<"u5C3C", "u65E5", "u5229", "u4E9A">>>> >>,
    <<<<"u1F1E7", "u1F1F7">>, <<<<"B", "R">>, <<"B", "r", "a", "z", "i", "l">>, <<"u5DF4", "u897F">>>> >>,
    <<<<"u1F1EE", "u1F1F9">>, <<<<"I", "T">>, <<"I", "t", "a", "l", "y">>, <<"u610F", "u5927", "u5229">>>> >>,
    <<<<"u1F1F5", "u1F1F1">>, <<<<"P", "L">>, <<"P", "o", "l", "a", "n", "d">>, <<"u6CE2", "u5170">>>> >>,
    <<<<"u1F1E8", "u1F1ED">>, <<<<"C", "H">>, <<"S", "w", "i", "t", "z", "e", "r", "l", "a", "n", "d">>, <<"u745E", "u58EB">>>> >>,
    <<<<"u1F1E6", "u1F1F9">>, <<<<"A", "T">>, <<"A", "u", "s", "t", "r", "i", "a">>, <<"u5965", "u5730", "u5229">>>> >>,
    <<<<"u1F1E7", "u1F1EA">>, <<<<"B", "E">>, <<"B", "e", "l", "g", "i", "u", "m">>, <<"u6BD4", "u5229", "u65F6">>>> >>,
    <<<<"u1F1F8", "u1F1EA">>, <<<<"S", "E">>, <<"S", "w", "e", "d", "e", "n">>, <<"u745E", "u5178">>>> >>,
    <<<<"u1F1F3", "u1F1F4">>, <<<<"N", "O">>, <<"N", "o", "r", "w", "a", "y">>, <<"u632A", "u5A01">>>> >>,
    <<<<"u1F1E9", "u1F1F0">>, <<<<"D", "K">>, <<"D", "e", "n", "m", "a", "r", "k">>, <<"u4E39", "u9EA6">>>> >>,
    <<<<"u1F1EB", "u1F1EE">>, <<<<"F", "I">>, <<"F", "i", "n", "l", "a", "n", "d">>, <<"u82AC", "u5170">>>> >>,
    <<<<"u1F1EE", "u1F1EA">>, <<<<"I", "E">>, <<"I", "r", "e", "l", "a", "n", "d">>, <<"u7231", "u5C14", "u5170">>>> >>,
    <<<<"u1F1F5", "u1F1F9">>, <<<<"P", "T">>, <<"P", "o", "r", "t", "u", "g", "a", "l">>, <<"u8461", "u8404", "u7259">>>> >>,
    <<<<"u1F1EC", "u1F1F7">>, <<<<"G", "R">>, <<"G", "r", "e", "e", "c", "e">>, <<"u5E0C", "u814A">>>> >>,
    <<<<"u1F1EE", "u1F1F1">>, <<<<"I", "L">>, <<"I", "s", "r", "a", "e", "l">>, <<"u4EE5", "u8272", "u5217">>>> >>,
    <<<<"u1F1E6", "u1F1EA">>, <<<<"A", "E">>, <<"U", "A", "E">>, <<"u963F", "u8054", "u914B">>, <<"D", "u", "b", "a", "i">>>> >>,
    <<<<"u1F1FF", "u1F1E6">>, <<<<"Z", "A">>, <<"S", "o", "u", "t", "h", " ", "A", "f", "r", "i", "c", "a">>, <<"u5357", "u975E">>>> >>,
    <<<<"u1F1F3", "u1F1FF">>, <<<<"N", "Z">>, <<"N", "e", "w", " ", "Z", "e", "a", "l", "a", "n", "d">>, <<"u65B0", "u897F", "u5170">>>> >>,
    <<<<"u1F1F5", "u1F1ED">>, <<<<"P", "H">>, <<"P", "h", "i", "l", "i", "p", "p", "i", "n", "e", "s">>, <<"u83F2", "u5F8B", "u5BBE">>>> >>,
    <<<<"u1F1F9", "u1F1ED">>, <<<<"T", "H">>, <<"T", "h", "a", "i", "l", "a", "n", "d">>, <<"u6CF0", "u56FD">>>> >>,
    <<<<"u1F1EE", "u1F1E9">>, <<<<"I", "D">>, <<"I", "n", "d", "o", "n", "e", "s", "i", "a">>, <<"u5370", "u5C3C">>, <<"u5370", "u5EA6", "u5C3C", "u897F", "u4E9A">>>> >>,
    <<<<"u1F1F5", "u1F1F0">>, <<<<"P", "K">>, <<"P", "a", "k", "i", "s", "t", "a", "n">>, <<"u5DF4", "u57FA", "u65AF", "u5766">>>> >>,
    <<<<"u1F1F2", "u1F1FD">>, <<<<"M", "X">>, <<"M", "e", "x", "i", "c", "o">>, <<"u58A8", "u897F", "u54E5">>>> >>,
    <<<<"u1F1E6", "u1F1F7">>, <<<<"A", "R">>, <<"A", "r", "g", "e", "n", "t", "i", "n", "a">>, <<"u963F", "u6839", "u5EF7">>>> >> >>

\* CountryGrouper.COUNTRY_PATTERNS as the class body sets it (merge_config.py:836-860):
\* <<group label, patterns>> in dict order, the first pattern being the flag.

COUNTRY_PATTERNS_INITIAL ==
  <<
    <<<<"u1F1ED", "u1F1F0", " ", "u9999", "u6E2F">>, <<<<"u1F1ED", "u1F1F0">>, <<"H", "K">>, <<"H", "o", "n", "g", " ", "K", "o", "n", "g">>, <<"u9999", "u6E2F">>>> >>,
    <<<<"u1F1F9", "u1F1FC", " ", "u53F0", "u6E7E">>, <<<<"u1F1F9", "u1F1FC">>, <<"T", "W">>, <<"T", "a", "i", "w", "a", "n">>, <<"u53F0", "u6E7E">>, <<"T", "a", "i", "p", "e", "i">>>> >>,
    <<<<"u1F1EF", "u1F1F5", " ", "u65E5", "u672C">>, <<<<"u1F1EF", "u1F1F5">>, <<"J", "P">>, <<"J", "a", "p", "a", "n">>, <<"u65E5", "u672C">>>> >>,
    <<<<"u1F1FA", "u1F1F8", " ", "u7F8E", "u56FD">>, <<<<"u1F1FA", "u1F1F8">>, <<"U", "S">>, <<"U", "n", "i", "t", "e", "d", " ", "S", "t", "a", "t", "e", "s">>, <<"u7F8E", "u56FD">>>> >>,
    <<<<"u1F1F8", "u1F1EC", " ", "u65B0", "u52A0", "u5761">>, <<<<"u1F1F8", "u1F1EC">>, <<"S", "G">>, <<"S", "i", "n", "g", "a", "p", "o", "r", "e">>, <<"u65B0", "u52A0", "u5761">>>> >>,
    <<<<"u1F1F0", "u1F1F7", " ", "u97E9", "u56FD">>, <<<<"u1F1F0", "u1F1F7">>, <<"K", "R">>, <<"K", "o", "r", "e", "a">>, <<"u97E9", "u56FD">>>> >>,
    <<<<"u1F1EC", "u1F1E7", " ", "u82F1", "u56FD">>, <<<<"u1F1EC", "u1F1E7">>, <<"G", "B">>, <<"U", "K">>, <<"U", "n", "i", "t", "e", "d", " ", "K", "i", "n", "g", "d", "o", "m">>, <<"u82F1", "u56FD">>, <<"E", "n", "g", "l", "a", "n", "d">>>> >>,
    <<<<"u1F1E9", "u1F1EA", " ", "u5FB7", "u56FD">>, <<<<"u1F1E9", "u1F1EA">>, <<"D", "E">>, <<"G", "e", "r", "m", "a", "n", "y">>, <<"u5FB7", "u56FD">>>> >>,
    <<<<"u1F1E8", "u1F1E6", " ", "u52A0", "u62FF", "u5927">>, <<<<"u1F1E8", "u1F1E6">>, <<"C", "A">>, <<"C", "a", "n", "a", "d", "a">>, <<"u52A0", "u62FF", "u5927">>>> >>,
    <<<<"u1F1E6", "u1F1FA", " ", "u6FB3", "u5927", "u5229", "u4E9A">>, <<<<"u1F1E6", "u1F1FA">>, <<"A", "U">>, <<"A", "u", "s", "t", "r", "a", "l", "i", "a">>, <<"u6FB3", "u5927", "u5229", "u4E9A">>, <<"u6FB3", "u6D32">>>> >>,
    <<<<"u1F1EB", "u1F1F7", " ", "u6CD5", "u56FD">>, <<<<"u1F1EB", "u1F1F7">>, <<"F", "R">>, <<"F", "r", "a", "n", "c", "e">>, <<"u6CD5", "u56FD">>>> >>,
    <<<<"u1F1F7", "u1F1FA", " ", "u4FC4", "u7F57", "u65AF">>, <<<<"u1F1F7", "u1F1FA">>, <<"R", "U">>, <<"R", "u", "s", "s", "i", "a">>, <<"u4FC4", "u7F57", "u65AF">>>> >>,
    <<<<"u1F1EE", "u1F1F3", " ", "u5370", "u5EA6">>, <<<<"u1F1EE", "u1F1F3">>, <<"I", "N">>, <<"I", "n", "d", "i", "a">>, <<"u5370", "u5EA6">>>> >>,
    <<<<"u1F1F3", "u1F1F1", " ", "u8377", "u5170">>, <<<<"u1F1F3", "u1F1F1">>, <<"N", "L">>, <<"N", "e", "t", "h", "e", "r", "l", "a", "n", "d", "s">>, <<"u8377", "u5170">>>> >>,
    <<<<"u1F1F9", "u1F1F7", " ", "u571F", "u8033", "u5176">>, <<<<"u1F1F9", "u1F1F7">>, <<"T", "R">>, <<"T", "u", "r", "k", "e", "y">>, <<"u571F", "u8033", "u5176">>>> >>,
    <<<<"u1F1E6", "u1F1F6", " ", "u5357", "u6781", "u6D32">>, <<<<"u1F1E6", "u1F1F6">>, <<"A", "n", "t", "a", "r", "c", "t", "i", "c", "a">>, <<"u5357", "u6781">>>> >>,
    <<<<"u1F1F2", "u1F1FE", " ", "u9A6C", "u6765", "u897F", "u4E9A">>, <<<<"u1F1F2", "u1F1FE">>, <<"M", "Y">>, <<"M", "a", "l", "a", "y", "s", "i", "a">>, <<"u9A6C", "u6765", "u897F", "u4E9A">>>> >>,
    <<<<"u1F1EA", "u1F1F8", " ", "u897F", "u73ED", "u7259">>, <<<<"u1F1EA", "u1F1F8">>, <<"E", "S">>, <<"S", "p", "a", "i", "n">>, <<"u897F", "u73ED", "u7259">>>> >>,
    <<<<"u1F1FB", "u1F1F3", " ", "u8D8A", "u5357">>, <<<<"u1F1FB", "u1F1F3">>, <<"V", "N">>, <<"V", "i", "e", "t", "n", "a", "m">>, <<"u8D8A", "u5357">>>> >>,
    <<<<"u1F1FA", "u1F1E6", " ", "u4E4C", "u514B", "u5170">>, <<<<"u1F1FA", "u1F1E6">>, <<"U", "A">>, <<"U", "k", "r", "a", "i", "n", "e">>, <<"u4E4C", "u514B", "u5170">>>> >>,
    <<<<"u1F1F2", "u1F1E9", " ", "u6469", "u5C14", "u591A", "u74E6">>, <<<<"u1F1F2", "u1F1E9">>, <<"M", "D">>, <<"M", "o", "l", "d", "o", "v", "a">>, <<"u6469", "u5C14", "u591A", "u74E6">>>> >>,
    <<<<"u1F1F3", "u1F1EC", " ", "u5C3C", "u65E5", "u5229", "u4E9A">>, <<<<"u1F1F3", "u1F1EC">>, <<"N", "G">>, <<"N", "i", "g", "e", "r", "i", "a">>, <<"u5C3C", "u65E5", "u5229", "u4E9A">>>> >>,
    <<<<"u1F1F3", "u1F1F4", " ", "u632A", "u5A01">>, <<<<"u1F1F3", "u1F1F4">>, <<"N", "O">>, <<"N", "o", "r", "w", "a", "y">>, <<"u632A", "u5A01">>>> >> >>

\* GeoIPLookup.COUNTRY_CODE_TO_FLAG (merge_config.py:640-662): <<ISO code, flag>>.

COUNTRY_CODE_TO_FLAG ==
  <<
    <<<<"H", "K">>, <<"u1F1ED", "u1F1F0">>>>, <<<<"T", "W">>, <<"u1F1F9", "u1F1FC">>>>, <<<<"J", "P">>, <<"u1F1EF", "u1F1F5">>>>,
    <<<<"U", "S">>, <<"u1F1FA", "u1F1F8">>>>, <<<<"S", "G">>, <<"u1F1F8", "u1F1EC">>>>, <<<<"K", "R">>, <<"u1F1F0", "u1F1F7">>>>,
    <<<<"G", "B">>, <<"u1F1EC", "u1F1E7">>>>, <<<<"D", "E">>, <<"u1F1E9", "u1F1EA">>>>, <<<<"C", "A">>, <<"u1F1E8", "u1F1E6">>>>,
    <<<<"A", "U">>, <<"u1F1E6", "u1F1FA">>>>, <<<<"F", "R">>, <<"u1F1EB", "u1F1F7">>>>, <<<<"R", "U">>, <<"u1F1F7", "u1F1FA">>>>,
    <<<<"I", "N">>, <<"u1F1EE", "u1F1F3">>>>, <<<<"N", "L">>, <<"u1F1F3", "u1F1F1">>>>, <<<<"T", "R">>, <<"u1F1F9", "u1F1F7">>>>,
    <<<<"A", "Q">>, <<"u1F1E6", "u1F1F6">>>>, <<<<"M", "Y">>, <<"u1F1F2", "u1F1FE">>>>, <<<<"E", "S">>, <<"u1F1EA", "u1F1F8">>>>,
    <<<<"V", "N">>, <<"u1F1FB", "u1F1F3">>>>, <<<<"U", "A">>, <<"u1F1FA", "u1F1E6">>>>, <<<<"M", "D">>, <<"u1F1F2", "u1F1E9">>>>,
    <<<<"N", "G">>, <<"u1F1F3", "u1F1EC">>>>, <<<<"B", "R">>, <<"u1F1E7", "u1F1F7">>>>, <<<<"I", "T">>, <<"u1F1EE", "u1F1F9">>>>,
    <<<<"P", "L">>, <<"u1F1F5", "u1F1F1">>>>, <<<<"C", "H">>, <<"u1F1E8", "u1F1ED">>>>, <<<<"A", "T">>, <<"u1F1E6", "u1F1F9">>>>,
    <<<<"B", "E">>, <<"u1F1E7", "u1F1EA">>>>, <<<<"S", "E">>, <<"u1F1F8", "u1F1EA">>>>, <<<<"N", "O">>, <<"u1F1F3", "u1F1F4">>>>,
    <<<<"D", "K">>, <<"u1F1E9", "u1F1F0">>>>, <<<<"F", "I">>, <<"u1F1EB", "u1F1EE">>>>, <<<<"I", "E">>, <<"u1F1EE", "u1F1EA">>>>,
    <<<<"P", "T">>, <<"u1F1F5", "u1F1F9">>>>, <<<<"G", "R">>, <<"u1F1EC", "u1F1F7">>>>, <<<<"C", "Z">>, <<"u1F1E8", "u1F1FF">>>>,
    <<<<"H", "U">>, <<"u1F1ED", "u1F1FA">>>>, <<<<"R", "O">>, <<"u1F1F7", "u1F1F4">>>>, <<<<"B", "G">>, <<"u1F1E7", "u1F1EC">>>>,
    <<<<"H", "R">>, <<"u1F1ED", "u1F1F7">>>>, <<<<"S", "K">>, <<"u1F1F8", "u1F1F0">>>>, <<<<"S", "I">>, <<"u1F1F8", "u1F1EE">>>>,
    <<<<"L", "T">>, <<"u1F1F1", "u1F1F9">>>>, <<<<"L", "V">>, <<"u1F1F1", "u1F1FB">>>>, <<<<"E", "E">>, <<"u1F1EA", "u1F1EA">>>>,
    <<<<"I", "L">>, <<"u1F1EE", "u1F1F1">>>>, <<<<"A", "E">>, <<"u1F1E6", "u1F1EA">>>>, <<<<"S", "A">>, <<"u1F1F8", "u1F1E6">>>>,
    <<<<"Q", "A">>, <<"u1F1F6", "u1F1E6">>>>, <<<<"K", "W">>, <<"u1F1F0", "u1F1FC">>>>, <<<<"O", "M">>, <<"u1F1F4", "u1F1F2">>>>,
    <<<<"B", "H">>, <<"u1F1E7", "u1F1ED">>>>, <<<<"J", "O">>, <<"u1F1EF", "u1F1F4">>>>, <<<<"L", "B">>, <<"u1F1F1", "u1F1E7">>>>,
    <<<<"E", "G">>, <<"u1F1EA", "u1F1EC">>>>, <<<<"Z", "A">>, <<"u1F1FF", "u1F1E6">>>>, <<<<"K", "E">>, <<"u1F1F0", "u1F1EA">>>>,
    <<<<"N", "Z">>, <<"u1F1F3", "u1F1FF">>>>, <<<<"P", "H">>, <<"u1F1F5", "u1F1ED">>>>, <<<<"T", "H">>, <<"u1F1F9", "u1F1ED">>>>,
    <<<<"I", "D">>, <<"u1F1EE", "u1F1E9">>>>, <<<<"P", "K">>, <<"u1F1F5", "u1F1F0">>>>, <<<<"B", "D">>, <<"u1F1E7", "u1F1E9">>>>,
    <<<<"L", "K">>, <<"u1F1F1", "u1F1F0">>>>, <<<<"N", "P">>, <<"u1F1F3", "u1F1F5">>>>, <<<<"M", "M">>, <<"u1F1F2", "u1F1F2">>>>,
    <<<<"K", "H">>, <<"u1F1F0", "u1F1ED">>>>, <<<<"L", "A">>, <<"u1F1F1", "u1F1E6">>>>, <<<<"M", "N">>, <<"u1F1F2", "u1F1F3">>>>,
    <<<<"K", "Z">>, <<"u1F1F0", "u1F1FF">>>>, <<<<"U", "Z">>, <<"u1F1FA", "u1F1FF">>>>, <<<<"A", "Z">>, <<"u1F1E6", "u1F1FF">>>>,
    <<<<"G", "E">>, <<"u1F1EC", "u1F1EA">>>>, <<<<"A", "M">>, <<"u1F1E6", "u1F1F2">>>>, <<<<"C", "Y">>, <<"u1F1E8", "u1F1FE">>>>,
    <<<<"M", "T">>, <<"u1F1F2", "u1F1F9">>>>, <<<<"I", "S">>, <<"u1F1EE", "u1F1F8">>>>, <<<<"L", "U">>, <<"u1F1F1", "u1F1FA">>>>,
    <<<<"M", "C">>, <<"u1F1F2", "u1F1E8">>>>, <<<<"A", "D">>, <<"u1F1E6", "u1F1E9">>>>, <<<<"L", "I">>, <<"u1F1F1", "u1F1EE">>>>,
    <<<<"S", "M">>, <<"u1F1F8", "u1F1F2">>>>, <<<<"V", "A">>, <<"u1F1FB", "u1F1E6">>>>, <<<<"M", "X">>, <<"u1F1F2", "u1F1FD">>>>,
    <<<<"A", "R">>, <<"u1F1E6", "u1F1F7">>>>, <<<<"C", "L">>, <<"u1F1E8", "u1F1F1">>>>, <<<<"C", "O">>, <<"u1F1E8", "u1F1F4">>>>,
    <<<<"P", "E">>, <<"u1F1F5", "u1F1EA">>>>, <<<<"V", "E">>, <<"u1F1FB", "u1F1EA">>>>, <<<<"E", "C">>, <<"u1F1EA", "u1F1E8">>>>,
    <<<<"B", "O">>, <<"u1F1E7", "u1F1F4">>>>, <<<<"P", "Y">>, <<"u1F1F5", "u1F1FE">>>>, <<<<"U", "Y">>, <<"u1F1FA", "u1F1FE">>>>,
    <<<<"C", "R">>, <<"u1F1E8", "u1F1F7">>>>, <<<<"P", "A">>, <<"u1F1F5", "u1F1E6">>>>, <<<<"C", "U">>, <<"u1F1E8", "u1F1FA">>>>,
    <<<<"D", "O">>, <<"u1F1E9", "u1F1F4">>>>, <<<<"P", "R">>, <<"u1F1F5", "u1F1F7">>>>, <<<<"J", "M">>, <<"u1F1EF", "u1F1F2">>>>,
    <<<<"H", "T">>, <<"u1F1ED", "u1F1F9">>>>, <<<<"C", "N">>, <<"u1F1E8", "u1F1F3">>>> >>

\* GeoIPLookup.COUNTRY_CODE_TO_NAME (merge_config.py:665-687): <<ISO code, name>>.

COUNTRY_CODE_TO_NAME ==
  <<
    <<<<"H", "K">>, <<"u9999", "u6E2F">>>>, <<<<"T", "W">>, <<"u53F0", "u6E7E">>>>, <<<<"J", "P">>, <<"u65E5", "u672C">>>>,
    <<<<"U", "S">>, <<"u7F8E", "u56FD">>>>, <<<<"S", "G">>, <<"u65B0", "u52A0", "u5761">>>>, <<<<"K", "R">>, <<"u97E9", "u56FD">>>>,
    <<<<"G", "B">>, <<"u82F1", "u56FD">>>>, <<<<"D", "E">>, <<"u5FB7", "u56FD">>>>, <<<<"C", "A">>, <<"u52A0", "u62FF", "u5927">>>>,
    <<<<"A", "U">>, <<"u6FB3", "u5927", "u5229", "u4E9A">>>>, <<<<"F", "R">>, <<"u6CD5", "u56FD">>>>, <<<<"R", "U">>, <<"u4FC4", "u7F57", "u65AF">>>>,
    <<<<"I", "N">>, <<"u5370", "u5EA6">>>>, <<<<"N", "L">>, <<"u8377", "u5170">>>>, <<<<"T", "R">>, <<"u571F", "u8033", "u5176">>>>,
    <<<<"A", "Q">>, <<"u5357", "u6781", "u6D32">>>>, <<<<"M", "Y">>, <<"u9A6C", "u6765", "u897F", "u4E9A">>>>, <<<<"E", "S">>, <<"u897F", "u73ED", "u7259">>>>,
    <<<<"V", "N">>, <<"u8D8A", "u5357">>>>, <<<<"U", "A">>, <<"u4E4C", "u514B", "u5170">>>>, <<<<"M", "D">>, <<"u6469", "u5C14", "u591A", "u74E6">>>>,
    <<<<"N", "G">>, <<"u5C3C", "u65E5", "u5229", "u4E9A">>>>, <<<<"B", "R">>, <<"u5DF4", "u897F">>>>, <<<<"I", "T">>, <<"u610F", "u5927", "u5229">>>>,
    <<<<"P", "L">>, <<"u6CE2", "u5170">>>>, <<<<"C", "H">>, <<"u745E", "u58EB">>>>, <<<<"A", "T">>, <<"u5965", "u5730", "u5229">>>>,
    <<<<"B", "E">>, <<"u6BD4", "u5229", "u65F6">>>>, <<<<"S", "E">>, <<"u745E", "u5178">>>>, <<<<"N", "O">>, <<"u632A", "u5A01">>>>,
    <<<<"D", "K">>, <<"u4E39", "u9EA6">>>>, <<<<"F", "I">>, <<"u82AC", "u5170">>>>, <<<<"I", "E">>, <<"u7231", "u5C14", "u5170">>>>,
    <<<<"P", "T">>, <<"u8461", "u8404", "u7259">>>>, <<<<"G", "R">>, <<"u5E0C", "u814A">>>>, <<<<"C", "Z">>, <<"u6377", "u514B">>>>,
    <<<<"H", "U">>, <<"u5308", "u7259", "u5229">>>>, <<<<"R", "O">>, <<"u7F57", "u9A6C", "u5C3C", "u4E9A">>>>, <<<<"B", "G">>, <<"u4FDD", "u52A0", "u5229", "u4E9A">>>>,
    <<<<"H", "R">>, <<"u514B", "u7F57", "u5730", "u4E9A">>>>, <<<<"S", "K">>, <<"u65AF", "u6D1B", "u4F10", "u514B">>>>, <<<<"S", "I">>, <<"u65AF", "u6D1B", "u6587", "u5C3C", "u4E9A">>>>,
    <<<<"L", "T">>, <<"u7ACB", "u9676", "u5B9B">>>>, <<<<"L", "V">>, <<"u62C9", "u8131", "u7EF4", "u4E9A">>>>, <<<<"E", "E">>, <<"u7231", "u6C99", "u5C3C", "u4E9A">>>>,
    <<<<"I", "L">>, <<"u4EE5", "u8272", "u5217">>>>, <<<<"A", "E">>, <<"u963F", "u8054", "u914B">>>>, <<<<"S", "A">>, <<"u6C99", "u7279">>>>,
    <<<<"Q", "A">>, <<"u5361", "u5854", "u5C14">>>>, <<<<"K", "W">>, <<"u79D1", "u5A01", "u7279">>>>, <<<<"O", "M">>, <<"u963F", "u66FC">>>>,
    <<<<"B", "H">>, <<"u5DF4", "u6797">>>>, <<<<"J", "O">>, <<"u7EA6", "u65E6">>>>, <<<<"L", "B">>, <<"u9ECE", "u5DF4", "u5AE9">>>>,
    <<<<"E", "G">>, <<"u57C3", "u53CA">>>>, <<<<"Z", "A">>, <<"u5357", "u975E">>>>, <<<<"K", "E">>, <<"u80AF", "u5C3C", "u4E9A">>>>,
    <<<<"N", "Z">>, <<"u65B0", "u897F", "u5170">>>>, <<<<"P", "H">>, <<"u83F2", "u5F8B", "u5BBE">>>>, <<<<"T", "H">>, <<"u6CF0", "u56FD">>>>,
    <<<<"I", "D">>, <<"u5370", "u5C3C">>>>, <<<<"P", "K">>, <<"u5DF4", "u57FA", "u65AF", "u5766">>>>, <<<<"B", "D">>, <<"u5B5F", "u52A0", "u62C9">>>>,
    <<<<"L", "K">>, <<"u65AF", "u91CC", "u5170", "u5361">>>>, <<<<"N", "P">>, <<"u5C3C", "u6CCA", "u5C14">>>>, <<<<"M", "M">>, <<"u7F05", "u7538">>>>,
    <<<<"K", "H">>, <<"u67EC", "u57D4", "u5BE8">>>>, <<<<"L", "A">>, <<"u8001", "u631D">>>>, <<<<"M", "N">>, <<"u8499", "u53E4">>>>,
    <<<<"K", "Z">>, <<"u54C8", "u8428", "u514B", "u65AF", "u5766">>>>, <<<<"U", "Z">>, <<"u4E4C", "u5179", "u522B", "u514B">>>>, <<<<"A", "Z">>, <<"u963F", "u585E", "u62DC", "u7586">>>>,
    <<<<"G", "E">>, <<"u683C", "u9C81", "u5409", "u4E9A">>>>, <<<<"A", "M">>, <<"u4E9A", "u7F8E", "u5C3C", "u4E9A">>>>, <<<<"C", "Y">>, <<"u585E", "u6D66", "u8DEF", "u65AF">>>>,
    <<<<"M", "T">>, <<"u9A6C", "u8033", "u4ED6">>>>, <<<<"I", "S">>, <<"u51B0", "u5C9B">>>>, <<<<"L", "U">>, <<"u5362", "u68EE", "u5821">>>>,
    <<<<"M", "C">>, <<"u6469", "u7EB3", "u54E5">>>>, <<<<"A", "D">>, <<"u5B89", "u9053", "u5C14">>>>, <<<<"L", "I">>, <<"u5217", "u652F", "u6566", "u58EB", "u767B">>>>,
    <<<<"S", "M">>, <<"u5723", "u9A6C", "u529B", "u8BFA">>>>, <<<<"V", "A">>, <<"u68B5", "u8482", "u5188">>>>, <<<<"M", "X">>, <<"u58A8", "u897F", "u54E5">>>>,
    <<<<"A", "R">>, <<"u963F", "u6839", "u5EF7">>>>, <<<<"C", "L">>, <<"u667A", "u5229">>>>, <<<<"C", "O">>, <<"u54E5", "u4F26", "u6BD4", "u4E9A">>>>,
    <<<<"P", "E">>, <<"u79D8", "u9C81">>>>, <<<<"V", "E">>, <<"u59D4", "u5185", "u745E", "u62C9">>>>, <<<<"E", "C">>, <<"u5384", "u74DC", "u591A", "u5C14">>>>,
    <<<<"B", "O">>, <<"u73BB", "u5229", "u7EF4", "u4E9A">>>>, <<<<"P", "Y">>, <<"u5DF4", "u62C9", "u572D">>>>, <<<<"U", "Y">>, <<"u4E4C", "u62C9", "u572D">>>>,
    <<<<"C", "R">>, <<"u54E5", "u65AF", "u8FBE", "u9ECE", "u52A0">>>>, <<<<"P", "A">>, <<"u5DF4", "u62FF", "u9A6C">>>>, <<<<"C", "U">>, <<"u53E4", "u5DF4">>>>,
    <<<<"D", "O">>, <<"u591A", "u7C73", "u5C3C", "u52A0">>>>, <<<<"P", "R">>, <<"u6CE2", "u591A", "u9ECE", "u5404">>>>, <<<<"J", "M">>, <<"u7259", "u4E70", "u52A0">>>>,
    <<<<"H", "T">>, <<"u6D77", "u5730">>>>, <<<<"C", "N">>, <<"u4E2D", "u56FD">>>> >>

\* NameTransformer.SOURCE_PREFIX_MAP (merge_config.py:462-468): <<source name, prefix>>.

SOURCE_PREFIX_MAP ==
  <<
    <<<<"u5B9D", "u53EF", "u68A6">>, <<"u5B9D", "u53EF", "u68A6">>>>,
    <<<<"u6D41", "u91CF", "u5149", "u673A", "u573A">>, <<"u6D41", "u91CF", "u591A">>>>,
    <<<<"u6DD8", "u6C14", "u5154">>, <<"u6DD8", "u6C14", "u5154">>>>,
    <<<<"u98CE", "u8427", "u8427", "u516C", "u76CA", "u673A", "u573A">>, <<"u98CE", "u8427", "u8427">>>>,
    <<<<"u9B54", "u6212">>, <<"u9B54", "u6212">>>> >>

\* The code points of the range U+4E00..U+9FFF that occur in the pattern tables
\* (has_chinese, merge_config.py:565 and :884, is only ever asked of a pattern).
CJK_CHARS ==
  {"u4E39", "u4E4C", "u4E9A", "u4EE5", "u4FC4", "u514B", "u5170", "u5176", "u5178", "u5217", "u5229", "u52A0", "u5357", "u5370", "u53F0", "u54E5", "u56FD", "u571F", "u5730", "u5761", "u5766", "u57FA", "u58A8", "u58EB", "u591A", "u5927", "u5965", "u5A01", "u5BBE", "u5C14", "u5C3C", "u5DF4", "u5E0C", "u5EA6", "u5EF7", "u5F8B", "u5FB7", "u610F", "u62FF", "u632A", "u6469", "u65AF", "u65B0", "u65E5", "u65F6", "u672C", "u6765", "u6781", "u6839", "u6BD4", "u6CD5", "u6CE2", "u6CF0", "u6D32", "u6E2F", "u6E7E", "u6FB3", "u7231", "u7259", "u73ED", "u745E", "u74E6", "u7F57", "u7F8E", "u8033", "u8054", "u814A", "u8272", "u82AC", "u82F1", "u8377", "u83F2", "u8404", "u8461", "u897F", "u8D8A", "u914B", "u963F", "u975E", "u97E9", "u9999", "u9A6C", "u9EA6"}

\* ------------------------------------------------------------------------
\* NameTransformer

\* The generic glyphs identify_flag skips (merge_config.py:551, :556).
GENERIC_FLAGS ==
    {<<"u1F530">>, <<"u1F30F">>, <<"u1F30D">>, <<"u1F30E">>, <<"u1F3F3", "uFE0F">>}

\* The default flag (merge_config.py:588).
UNKNOWN_FLAG == <<"u1F530">>

\* The default group label (merge_config.py:912).
UNKNOWN_GROUP == <<"u1F530", " ", "u672A", "u77E5">>

\* NameTransformer.remove_flags: one replace per flag in list order, then
\* ' '.join(result.split()).strip().  The loop from FLAG_EMOJIS[k] on: a flag that
\* does not occur leaves result as it is, so the loop is taken at the next flag
\* that occurs.
RECURSIVE RemoveFlagsFrom(_, _)
RemoveFlagsFrom(result, k) ==
    LET present == {j \in k..Len(FLAG_EMOJIS) : Contains(result, FLAG_EMOJIS[j])}
    IN  IF present = {} THEN result
        ELSE RemoveFlagsFrom(Replace(result, FLAG_EMOJIS[Min(present)], <<>>),
                             Min(present) + 1)

remove_flags(name) == JoinSplit(RemoveFlagsFrom(name, 1))

HasChinese(pattern) == \E i \in 1..Len(pattern) : pattern[i] \in CJK_CHARS

\* The search without its two lookarounds.
SearchWordUpper_NoLookaround(pattern_upper, name_upper) == Contains(name_upper, pattern_upper)

\* re.search(r'(?<![A-Z])' + re.escape(pattern_upper) + r'(?![A-Z])', name_upper)
SearchWordUpper(pattern_upper, name_upper) ==
    \E i \in 1..(Len(name_upper) - Len(pattern_upper) + 1) :
        /\ OccursAt(name_upper, pattern_upper, i)
        /\ (i = 1 \/ ~IsUpperLetter(name_upper[i - 1]))
        /\ (i + Len(pattern_upper) > Len(name_upper)
              \/ ~IsUpperLetter(name_upper[i + Len(pattern_upper)]))

\* One pattern of step 3 of identify_flag against the name.
FlagPatternMatches(pattern, name, name_upper) ==
    IF HasChinese(pattern) THEN Contains(name, pattern)
    ELSE IF Len(pattern) <= 3 THEN SearchWordUpper(Upper(pattern), name_upper)
    ELSE Contains(name_upper, Upper(pattern))

\* The collaborator behind GeoIPLookup.lookup (the local database, DNS and the
\* two web services): the country code it answers for a server, <<>> for none.
\* JP has a group in COUNTRY_PATTERNS, CH has a flag but no group, BY has
\* neither, and the last server does not resolve.
GEO_ANSWERS ==
    << << <<"a">>, <<"J", "P">> >>,
       << <<"b">>, <<"C", "H">> >>,
       << <<"c">>, <<"B", "Y">> >>,
       << <<"d">>, <<>> >> >>

\* The empty dict.
EmptyDict == <<>>

\* GeoIPLookup.lookup: the cached answer, else the collaborator's.
lookup(cache, server) ==
    IF server \in DOMAIN cache THEN cache[server]
    ELSE DictGet(GEO_ANSWERS, server, <<>>)

\* The cache after lookup(server): every path of lookup stores its answer.
cache_after_lookup(cache, server) ==
    IF server \in DOMAIN cache THEN cache
    ELSE [s \in DOMAIN cache \cup {server} |->
             IF s = server THEN DictGet(GEO_ANSWERS, server, <<>>) ELSE cache[s]]

\* GeoIPLookup.get_flag
get_flag(cache, server) ==
    LET country_code == lookup(cache, server)
    IN  IF country_code = <<>> THEN <<>>
        ELSE DictGet(COUNTRY_CODE_TO_FLAG, country_code, <<>>)

\* GeoIPLookup.get_country_group
get_country_group(cache, server) ==
    LET country_code == lookup(cache, server)
    IN  IF country_code = <<>> THEN <<>>
        ELSE DictGet(COUNTRY_CODE_TO_FLAG, country_code, UNKNOWN_FLAG) \o <<" ">>
                 \o DictGet(COUNTRY_CODE_TO_NAME, country_code, country_code)

\* Steps 1 to 3 of identify_flag: the flag the name alone gives, <<>> for none.
FlagByName(name) ==
    LET p1 == {i \in 1..Len(FLAG_EMOJIS) :
                  StartsWith(name, FLAG_EMOJIS[i]) /\ FLAG_EMOJIS[i] \notin GENERIC_FLAGS}
        p2 == {i \in 1..Len(FLAG_EMOJIS) :
                  Contains(name, FLAG_EMOJIS[i]) /\ FLAG_EMOJIS[i] \notin GENERIC_FLAGS}
        name_upper == Upper(name)
        p3 == {i \in 1..Len(COUNTRY_FLAG_MAP) :
                  \E j \in 1..Len(COUNTRY_FLAG_MAP[i][2]) :
                      FlagPatternMatches(COUNTRY_FLAG_MAP[i][2][j], name, name_upper)}
    IN  IF p1 # {} THEN FLAG_EMOJIS[Min(p1)]
        ELSE IF p2 # {} THEN FLAG_EMOJIS[Min(p2)]
        ELSE IF p3 # {} THEN COUNTRY_FLAG_MAP[Min(p3)][1]
        ELSE <<>>

\* NameTransformer.identify_flag: ret is the flag returned, cache the geolocation
\* cache it leaves behind.
identify_flag(name, server, cache) ==
    LET byName == FlagByName(name)
        asked  == byName = <<>> /\ server # <<>> /\ GEOIP_AVAILABLE
        flag   == IF asked THEN get_flag(cache, server) ELSE <<>>
    IN  [ret   |-> IF byName # <<>> THEN byName
                   ELSE IF flag # <<>> THEN flag
                   ELSE UNKNOWN_FLAG,
         cache |-> IF asked THEN cache_after_lookup(cache, server) ELSE cache]

\* Step 4 of transform_name: the cleaned name starts with a prefix of
\* SOURCE_PREFIX_MAP followed by a space or a hyphen.
has_prefix(clean_name) ==
    \E i \in 1..Len(SOURCE_PREFIX_MAP) :
        \/ StartsWith(clean_name, SOURCE_PREFIX_MAP[i][2] \o <<" ">>)
        \/ StartsWith(clean_name, SOURCE_PREFIX_MAP[i][2] \o <<"-">>)

\* The name transform_name builds (merge_config.py:596-621).
new_name(original_name, server, source_name, cache) ==
    LET prefix == DictGet(SOURCE_PREFIX_MAP, source_name, source_name)
        flag == identify_flag(original_name, server, cache).ret
        clean_name == Replace(remove_flags(original_name),
                              <<"[", "i", "p", "v", "6", "]">>, <<"i", "p", "v", "6">>)
    IN  IF has_prefix(clean_name) THEN flag \o <<" ">> \o clean_name
        ELSE flag \o <<" ">> \o prefix \o <<" ">> \o clean_name

\* ------------------------------------------------------------------------
\* CountryGrouper

\* re.search(r'(?<![A-Za-z])' + re.escape(pattern) + r'(?![A-Za-z])', proxy_name,
\* re.IGNORECASE)
SearchWordIgnoreCase(pattern, proxy_name, name_upper) ==
    \E i \in 1..(Len(proxy_name) - Len(pattern) + 1) :
        /\ OccursAt(name_upper, Upper(pattern), i)
        /\ (i = 1 \/ ~IsLetter(proxy_name[i - 1]))
        /\ (i + Len(pattern) > Len(proxy_name) \/ ~IsLetter(proxy_name[i + Len(pattern)]))

\* One pattern of step 3 of identify_country against the name.
CountryPatternMatches(pattern, proxy_name, name_upper) ==
    IF HasChinese(pattern) THEN Contains(proxy_name, pattern)
    ELSE IF Len(pattern) <= 3 THEN SearchWordIgnoreCase(pattern, proxy_name, name_upper)
    ELSE Contains(name_upper, Upper(pattern))

\* Steps 1 to 3 of identify_country over the pattern table as it stands: the
\* label the name alone gives, <<>> for none.
CountryByName(proxy_name, patterns) ==
    LET p1 == {i \in 1..Len(patterns) : StartsWith(proxy_name, patterns[i][2][1])}
        p2 == {i \in 1..Len(patterns) : Contains(proxy_name, patterns[i][2][1])}
        name_upper == Upper(proxy_name)
        p3 == {i \in 1..Len(patterns) :
                  \E j \in 2..Len(patterns[i][2]) :
                      CountryPatternMatches(patterns[i][2][j], proxy_name, name_upper)}
    IN  IF p1 # {} THEN patterns[Min(p1)][1]
        ELSE IF p2 # {} THEN patterns[Min(p2)][1]
        ELSE IF p3 # {} THEN patterns[Min(p3)][1]
        ELSE <<>>

\* country_group.split(' ', 1)
SplitFirstSpace(s) ==
    LET at == {i \in 1..Len(s) : s[i] = " "}
    IN  IF at = {} THEN <<s>>
        ELSE <<SubSeq(s, 1, Min(at) - 1), SubSeq(s, Min(at) + 1, Len(s))>>

\* CountryGrouper.identify_country: ret is the label returned, patterns and cache
\* are COUNTRY_PATTERNS and the geolocation cache as the call leaves them.
identify_country(proxy_name, proxy_server, patterns, cache) ==
    LET byName == CountryByName(proxy_name, patterns)
        asked  == byName = <<>> /\ proxy_server # <<>> /\ GEOIP_AVAILABLE
        country_group == IF asked THEN get_country_group(cache, proxy_server) ELSE <<>>
        parts == SplitFirstSpace(country_group)
    IN  [ret      |-> IF byName # <<>> THEN byName
                      ELSE IF country_group # <<>> THEN country_group
                      ELSE UNKNOWN_GROUP,
         patterns |-> IF country_group # <<>> /\ ~DictHas(patterns, country_group)
                         /\ Len(parts) = 2
                      THEN Append(patterns, <<country_group, <<parts[1], parts[2]>> >>)
                      ELSE patterns,
         cache    |-> IF asked THEN cache_after_lookup(cache, proxy_server) ELSE cache]

\* CountryGrouper.group_by_country: the loop over proxies[i..], groups being the
\* dict built so far.
RECURSIVE GroupFrom(_, _, _, _, _)
GroupFrom(proxies, i, groups, patterns, cache) ==
    IF i > Len(proxies)
    THEN [ret |-> groups, patterns |-> patterns, cache |-> cache]
    ELSE LET name == proxies[i].name
             r == identify_country(name, proxies[i].server, patterns, cache)
             country == r.ret
             groups2 == IF DictHas(groups, country)
                        THEN [k \in 1..Len(groups) |->
                                 IF groups[k][1] = country
                                 THEN <<country, Append(groups[k][2], name)>>
                                 ELSE groups[k]]
                        ELSE Append(groups, <<country, <<name>> >>)
         IN  GroupFrom(proxies, i + 1, groups2, r.patterns, r.cache)

group_by_country(proxies, patterns, cache) == GroupFrom(proxies, 1, <<>>, patterns, cache)

\* ------------------------------------------------------------------------
\* ProxyGroupGenerator

GLOBAL == <<"G", "L", "O", "B", "A", "L">>
DIRECT == <<"D", "I", "R", "E", "C", "T">>
REJECT == <<"R", "E", "J", "E", "C", "T">>
MANUAL_SELECT == <<"u1F680", " ", "u624B", "u52A8", "u9009", "u62E9">>
AUTO_SELECT ==
    <<"u267B", "uFE0F", " ", "u81EA", "u52A8", "u9009", "u62E9", "(", "u6D4B", "u901F", ")">>
FALLBACK == <<"u1F52F", " ", "u6545", "u969C", "u8F6C", "u79FB">>

\* SortedPlace with a sort that is not stable: equal counts come out in reverse.
SortedPlace_Unstable(countries, i) ==
    1 + Cardinality({j \in 1..Len(countries) :
            \/ Len(countries[j][2]) > Len(countries[i][2])
            \/ Len(countries[j][2]) = Len(countries[i][2]) /\ j > i})

\* sorted([c for c in country_groups.keys() if country_groups[c]],
\*        key=lambda c: len(country_groups[c]), reverse=True): sorted is stable, also
\* with reverse=True, so equal counts keep the dict's order.
SortedPlace(countries, i) ==
    1 + Cardinality({j \in 1..Len(countries) :
            \/ Len(countries[j][2]) > Len(countries[i][2])
            \/ Len(countries[j][2]) = Len(countries[i][2]) /\ j < i})

sorted_countries(groups) ==
    LET countries == SelectSeq(groups, LAMBDA g : g[2] # <<>>)
    IN  [k \in 1..Len(countries) |->
            countries[CHOOSE i \in 1..Len(countries) : SortedPlace(countries, i) = k][1]]

\* generate_groups with the fallback group appended before the auto-select group.
generate_groups_FallbackFirst(proxies, groups) ==
    LET sorted == sorted_countries(groups)
    IN  << [name |-> GLOBAL, type |-> "select",
            proxies |-> <<DIRECT, REJECT, MANUAL_SELECT, AUTO_SELECT, FALLBACK>> \o sorted],
           [name |-> MANUAL_SELECT, type |-> "select",
            proxies |-> <<DIRECT, REJECT>> \o sorted],
           [name |-> FALLBACK, type |-> "fallback", proxies |-> sorted,
            url |-> "http://www.gstatic.com/generate_204", interval |-> 300],
           [name |-> AUTO_SELECT, type |-> "url-test", proxies |-> sorted,
            url |-> "http://www.gstatic.com/generate_204", interval |-> 300,
            tolerance |-> 50] >>
        \o [k \in 1..Len(sorted) |->
               [name |-> sorted[k], type |-> "select",
                proxies |-> DictGet(groups, sorted[k], <<>>)]]

\* ProxyGroupGenerator.generate_groups
generate_groups(proxies, groups) ==
    LET sorted == sorted_countries(groups)
    IN  << [name |-> GLOBAL, type |-> "select",
            proxies |-> <<DIRECT, REJECT, MANUAL_SELECT, AUTO_SELECT, FALLBACK>> \o sorted],
           [name |-> MANUAL_SELECT, type |-> "select",
            proxies |-> <<DIRECT, REJECT>> \o sorted],
           [name |-> AUTO_SELECT, type |-> "url-test", proxies |-> sorted,
            url |-> "http://www.gstatic.com/generate_204", interval |-> 300,
            tolerance |-> 50],
           [name |-> FALLBACK, type |-> "fallback", proxies |-> sorted,
            url |-> "http://www.gstatic.com/generate_204", interval |-> 300] >>
        \o [k \in 1..Len(sorted) |->
               [name |-> sorted[k], type |-> "select",
                proxies |-> DictGet(groups, sorted[k], <<>>)]]

\* ------------------------------------------------------------------------
\* ConfigMerger: one aggregation pass

MaxRecords == 3

\* Names the sources hold: no hint at all, the flag of Switzerland (a flag of
\* FLAG_EMOJIS that has no group in COUNTRY_PATTERNS), a country code.
RAW_NAMES ==
    { <<"x">>,
      <<"u1F1E8", "u1F1ED", "x">>,
      <<"U", "S">> }

\* Servers of the records: one the collaborator places in Japan, one in Switzerland.
SERVERS == {<<"a">>, <<"b">>}

SOURCE_NAMES == {<<"P">>}

vars == <<GEOIP_AVAILABLE, patterns_added, geoip_cache, all_proxies, country_groups,
          proxy_groups, heap, input, ret, pc>>

geoVars == <<GEOIP_AVAILABLE, patterns_added, geoip_cache>>
passVars == <<all_proxies, country_groups, proxy_groups>>
callVars == <<heap, input, ret>>

\* CountryGrouper.COUNTRY_PATTERNS as it stands: the dict is only ever appended to
\* (merge_config.py:909).
COUNTRY_PATTERNS == COUNTRY_PATTERNS_INITIAL \o patterns_added

\* What a pattern table holds beyond the class body's entries.
Added(patterns) == SubSeq(patterns, Len(COUNTRY_PATTERNS_INITIAL) + 1, Len(patterns))

\* The module as imported: the class attributes as the class bodies set them.
Imported ==
    /\ GEOIP_AVAILABLE \in BOOLEAN
    /\ patterns_added = <<>>
    /\ geoip_cache = EmptyDict

NoPass == all_proxies = <<>> /\ country_groups = <<>> /\ proxy_groups = <<>>

NoCall == heap = <<>> /\ input = <<>> /\ ret = <<>>

InitPass == Imported /\ NoPass /\ NoCall /\ pc = "load"

\* load_source_proxies, one record of a source that passed both filters (the
\* names drawn hold no ignore keyword): the record is renamed with the source's
\* name and appended (NameTransformer.transform_name, all_proxies.extend).
LoadSourceProxy(name, server, source_name) ==
    /\ pc = "load"
    /\ Len(all_proxies) < MaxRecords
    /\ all_proxies' = Append(all_proxies,
           [name |-> new_name(name, server, source_name, geoip_cache), server |-> server])
    /\ geoip_cache' = identify_flag(name, server, geoip_cache).cache
    /\ UNCHANGED <<GEOIP_AVAILABLE, patterns_added, country_groups, proxy_groups, pc>>
    /\ UNCHANGED callVars

\* merge_and_generate after load_source_proxies has returned.
MergeAndGenerate ==
    /\ pc = "load"
    /\ pc' = "done"
    /\ IF all_proxies = <<>>
       THEN /\ country_groups' = <<>>
            /\ proxy_groups' = <<>>
            /\ UNCHANGED <<patterns_added, geoip_cache>>
       ELSE LET g == group_by_country(all_proxies, COUNTRY_PATTERNS, geoip_cache)
            IN  /\ country_groups' = g.ret
                /\ proxy_groups' = generate_groups(all_proxies, g.ret)
                /\ patterns_added' = Added(g.patterns)
                /\ geoip_cache' = g.cache
    /\ UNCHANGED <<GEOIP_AVAILABLE, all_proxies>>
    /\ UNCHANGED callVars

NextPass ==
    \/ \E name \in RAW_NAMES, server \in SERVERS, source_name \in SOURCE_NAMES :
           LoadSourceProxy(name, server, source_name)
    \/ MergeAndGenerate

SpecPass == InitPass /\ [][NextPass]_vars

\* The per-country select groups of the emitted list: what follows the four
\* selector groups.
CountryGroupsOf(groups) == SubSeq(groups, 5, Len(groups))

Members(group) == {group.proxies[i] : i \in 1..Len(group.proxies)}

RecordNames == {all_proxies[i].name : i \in 1..Len(all_proxies)}

\* C1: after synthesize every record name of the aggregated list is a member of
\* exactly one per-country select group, and the union of the members of the
\* per-country groups is the set of record names.
C1_EveryNameInExactlyOneCountryGroup ==
    pc = "done" =>
        LET cg == CountryGroupsOf(proxy_groups)
        IN  /\ \A n \in RecordNames :
                   Cardinality({k \in 1..Len(cg) : n \in Members(cg[k])}) = 1
            /\ UNION {Members(cg[k]) : k \in 1..Len(cg)} = RecordNames

\* The place of a label in the dict group_by_country built: labels are inserted
\* when first discovered.
Discovered(label) == CHOOSE i \in 1..Len(country_groups) : country_groups[i][1] = label

\* C2: the per-country groups are emitted by member count, largest first, and
\* buckets of equal count in the order their labels were first discovered.
C2_CountryGroupsSortedStable ==
    pc = "done" =>
        LET cg == CountryGroupsOf(proxy_groups)
        IN  \A k, l \in 1..Len(cg) :
                k < l =>
                    \/ Len(cg[k].proxies) > Len(cg[l].proxies)
                    \/ /\ Len(cg[k].proxies) = Len(cg[l].proxies)
                       /\ Discovered(cg[k].name) < Discovered(cg[l].name)

\* A pass that emitted two country groups of the same size.
C2_Witness ==
    /\ pc = "done"
    /\ LET cg == CountryGroupsOf(proxy_groups)
       IN  \E k, l \in 1..Len(cg) : k < l /\ Len(cg[k].proxies) = Len(cg[l].proxies)

\* C3: the emitted list is the global group, the manual group, the auto-select
\* url-test group, the fallback group and then one select group per non-empty
\* bucket; the selectors list the country groups in the emitted order, and every
\* country group lists its bucket's names in bucket order.
C3_GroupsInFixedOrder ==
    pc = "done" /\ all_proxies # <<>> =>
        LET cg == CountryGroupsOf(proxy_groups)
            labels == [k \in 1..Len(cg) |-> cg[k].name]
            nonEmpty == SelectSeq(country_groups, LAMBDA g : g[2] # <<>>)
        IN  /\ Len(proxy_groups) = 4 + Len(nonEmpty)
            /\ proxy_groups[1] =
                   [name |-> GLOBAL, type |-> "select",
                    proxies |-> <<DIRECT, REJECT, MANUAL_SELECT, AUTO_SELECT, FALLBACK>>
                                    \o labels]
            /\ proxy_groups[2] =
                   [name |-> MANUAL_SELECT, type |-> "select",
                    proxies |-> <<DIRECT, REJECT>> \o labels]
            /\ proxy_groups[3] =
                   [name |-> AUTO_SELECT, type |-> "url-test", proxies |-> labels,
                    url |-> "http://www.gstatic.com/generate_204", interval |-> 300,
                    tolerance |-> 50]
            /\ proxy_groups[4] =
                   [name |-> FALLBACK, type |-> "fallback", proxies |-> labels,
                    url |-> "http://www.gstatic.com/generate_204", interval |-> 300]
            /\ \A k \in 1..Len(cg) :
                   /\ cg[k].type = "select"
                   /\ \E i \in 1..Len(nonEmpty) :
                          nonEmpty[i][1] = cg[k].name /\ nonEmpty[i][2] = cg[k].proxies
            /\ \A k, l \in 1..Len(cg) : k # l => cg[k].name # cg[l].name

\* A pass that emitted the four selectors and at least two country groups.
C3_Witness == pc = "done" /\ Len(proxy_groups) >= 6

\* ------------------------------------------------------------------------
\* The classifiers, called on one name

MaxNameLen == 3

\* The flags identify_flag recognizes as a country's.
RECOGNIZED_FLAGS ==
    {FLAG_EMOJIS[i] : i \in {j \in 1..Len(FLAG_EMOJIS) : FLAG_EMOJIS[j] \notin GENERIC_FLAGS}}

\* Keywords with the flag of their country: the code US and the Chinese name of Japan.
KEYWORDS ==
    { << <<"U", "S">>, <<"u1F1FA", "u1F1F8">> >>,
      << <<"u65E5", "u672C">>, <<"u1F1EF", "u1F1F5">> >> }

\* A leading flag followed by a keyword of another country.
FLAGGED_NAMES ==
    {f \o <<" ">> \o kw[1] : f \in RECOGNIZED_FLAGS, kw \in {k \in KEYWORDS : TRUE}}

AUSTRALIA_NODE == <<"A", "U", "S", "T", "R", "A", "L", "I", "A", "-", "N", "O", "D", "E">>

US_LA_01 == <<"U", "S", "-", "L", "A", "-", "0", "1">>

\* Flagless names: every string of up to MaxNameLen of these characters (the
\* last is the first character of the Chinese word for node, which is in no
\* pattern), and the two names of the boundary example.
PLAIN_NAMES ==
    UNION {[1..k -> {"U", "S", "s", "A", "-", "u8282"}] : k \in 1..MaxNameLen}
        \cup {AUSTRALIA_NODE, US_LA_01}

CLASSIFY_SERVERS == {<<>>, <<"a">>}

InitClassify ==
    /\ Imported /\ NoPass
    /\ heap = <<>>
    /\ input \in [name : FLAGGED_NAMES \cup PLAIN_NAMES, server : CLASSIFY_SERVERS]
    /\ ret = <<>>
    /\ pc = "call"

\* NameTransformer.identify_flag(name, server)
IdentifyFlag ==
    /\ pc = "call"
    /\ LET r == identify_flag(input.name, input.server, geoip_cache)
       IN  /\ ret' = [op |-> "identify_flag", value |-> r.ret]
           /\ geoip_cache' = r.cache
    /\ pc' = "done"
    /\ UNCHANGED <<GEOIP_AVAILABLE, patterns_added, heap, input>>
    /\ UNCHANGED passVars

\* CountryGrouper.identify_country(proxy_name, proxy_server)
IdentifyCountry ==
    /\ pc = "call"
    /\ LET r == identify_country(input.name, input.server, COUNTRY_PATTERNS, geoip_cache)
       IN  /\ ret' = [op |-> "identify_country", value |-> r.ret]
           /\ patterns_added' = Added(r.patterns)
           /\ geoip_cache' = r.cache
    /\ pc' = "done"
    /\ UNCHANGED <<GEOIP_AVAILABLE, heap, input>>
    /\ UNCHANGED passVars

NextClassify == IdentifyFlag \/ IdentifyCountry

SpecClassify == InitClassify /\ [][NextClassify]_vars

\* The flag a classifier's answer stands for: the flag itself, or the flag
\* that starts a group label.
FlagOf(answer) == SplitFirstSpace(answer)[1]

\* C4: a name that starts with the flag of a recognized country A and holds a
\* keyword of another country B resolves to A in both classifiers, whatever the
\* server.
C4_LeadingFlagWins ==
    pc = "done" =>
        \A f \in RECOGNIZED_FLAGS, kw \in KEYWORDS :
            input.name = f \o <<" ">> \o kw[1] /\ kw[2] # f => FlagOf(ret.value) = f

\* The keyword patterns of the table the call consulted, by the flag of their country.
KeywordsOf(op, flag) ==
    IF op = "identify_flag"
    THEN UNION {{COUNTRY_FLAG_MAP[i][2][j] : j \in 1..Len(COUNTRY_FLAG_MAP[i][2])} :
                   i \in {k \in 1..Len(COUNTRY_FLAG_MAP) : COUNTRY_FLAG_MAP[k][1] = flag}}
    ELSE UNION {{COUNTRY_PATTERNS_INITIAL[i][2][j] : j \in 2..Len(COUNTRY_PATTERNS_INITIAL[i][2])} :
                   i \in {k \in 1..Len(COUNTRY_PATTERNS_INITIAL) :
                             COUNTRY_PATTERNS_INITIAL[k][2][1] = flag}}

TableFlags(op) ==
    IF op = "identify_flag"
    THEN {COUNTRY_FLAG_MAP[i][1] : i \in 1..Len(COUNTRY_FLAG_MAP)}
    ELSE {COUNTRY_PATTERNS_INITIAL[i][2][1] : i \in 1..Len(COUNTRY_PATTERNS_INITIAL)}

\* The pattern occurs in the name, compared without case, with no character of
\* `blocking` right before it and none right after it.
BoundedOccurrence(pattern, name, blocking) ==
    \E i \in 1..(Len(name) - Len(pattern) + 1) :
        /\ Upper(SubSeq(name, i, i + Len(pattern) - 1)) = Upper(pattern)
        /\ (i = 1 \/ name[i - 1] \notin blocking)
        /\ (i + Len(pattern) > Len(name) \/ name[i + Len(pattern)] \notin blocking)

\* Step 3 for one pattern: a Chinese pattern is a substring, a Latin pattern of
\* at most 3 characters a bounded occurrence, a longer one a substring without
\* case.
PatternHolds(pattern, name, blocking) ==
    IF HasChinese(pattern) THEN Contains(name, pattern)
    ELSE IF Len(pattern) <= 3 THEN BoundedOccurrence(pattern, name, blocking)
    ELSE Contains(Upper(name), Upper(pattern))

\* What step 3 does when short patterns are bounded by `blocking`: a flagless
\* name resolved by keyword to a country holds a pattern of that country, a name
\* that holds a bounded occurrence of a country code is resolved to a country,
\* "AUSTRALIA-NODE" is resolved to Australia and "US-LA-01" to the United States.
ShortCodesBoundedBy(blocking) ==
    pc = "done" /\ input.name \in PLAIN_NAMES =>
        /\ input.server = <<>> /\ FlagOf(ret.value) # UNKNOWN_FLAG =>
               \E p \in KeywordsOf(ret.op, FlagOf(ret.value)) :
                   PatternHolds(p, input.name, blocking)
        /\ (\E f \in TableFlags(ret.op) : \E p \in KeywordsOf(ret.op, f) :
                Len(p) <= 3 /\ ~HasChinese(p) /\ BoundedOccurrence(p, input.name, blocking))
               => FlagOf(ret.value) \in TableFlags(ret.op)
        /\ input.name = AUSTRALIA_NODE => FlagOf(ret.value) = <<"u1F1E6", "u1F1FA">>
        /\ input.name = US_LA_01 => FlagOf(ret.value) = <<"u1F1FA", "u1F1F8">>

ASCII_LETTERS == UPPER_LETTERS \cup LOWER_LETTERS

\* The alphabetic characters of the names drawn: the letters and the Chinese
\* character.
ALPHABETIC == ASCII_LETTERS \cup {"u8282"}

\* C6 (amended): in keyword matching, in both classifiers, a Latin pattern of at
\* most 3 characters matches a name only at an occurrence with no ASCII letter
\* (A-Z, a-z) right before it and none right after it, without regard to case;
\* any other character, a Chinese one included, bounds a match. "AUSTRALIA-NODE"
\* does not match the code "US" and "US-LA-01" does.
C6_ShortCodeNeedsAsciiBoundaries == ShortCodesBoundedBy(ASCII_LETTERS)

\* C6 as stated: a Latin pattern of at most 3 characters matches only at an
\* occurrence with no alphabetic character right before it and none right after.
C6_ShortCodeNeedsAlphabeticBoundaries == ShortCodesBoundedBy(ALPHABETIC)

\* "US" occurs in the name only next to a letter, and the classifier answered unknown.
C6_Witness ==
    /\ pc = "done"
    /\ input.server = <<>>
    /\ Contains(Upper(input.name), <<"U", "S">>)
    /\ ~BoundedOccurrence(<<"U", "S">>, input.name, ASCII_LETTERS)
    /\ FlagOf(ret.value) = UNKNOWN_FLAG

\* ------------------------------------------------------------------------
\* remove_flags, called on its own result

MaxGlyphs == 3

\* Two regional indicator symbols (A and D: the flag of Andorra is the pair
\* A D), the generic glyph, a space and a letter.
GLYPH_NAMES ==
    UNION {[1..k -> {"u1F1E6", "u1F1E9", "u1F530", " ", "x"}] : k \in 1..MaxGlyphs}

InitRemove ==
    /\ Imported /\ NoPass
    /\ heap = <<>>
    /\ input \in [name : GLYPH_NAMES]
    /\ ret = <<>>
    /\ pc = "call"

\* NameTransformer.remove_flags(name)
RemoveFlags ==
    /\ pc = "call"
    /\ ret' = [op |-> "remove_flags", value |-> remove_flags(input.name)]
    /\ pc' = "once"
    /\ UNCHANGED <<heap, input>>
    /\ UNCHANGED geoVars
    /\ UNCHANGED passVars

\* NameTransformer.remove_flags on the name the first call returned.
RemoveFlagsAgain ==
    /\ pc = "once"
    /\ input' = [name |-> ret.value]
    /\ ret' = [op |-> "remove_flags", value |-> remove_flags(ret.value)]
    /\ pc' = "twice"
    /\ UNCHANGED heap
    /\ UNCHANGED geoVars
    /\ UNCHANGED passVars

NextRemove == RemoveFlags \/ RemoveFlagsAgain

SpecRemove == InitRemove /\ [][NextRemove]_vars

\* C5: remove_flags is idempotent, and what one application returns holds no
\* glyph of FLAG_EMOJIS.
C5_RemoveFlagsIdempotent ==
    /\ pc = "twice" => ret.value = input.name
    /\ pc \in {"once", "twice"} =>
           \A i \in 1..Len(FLAG_EMOJIS) : ~Contains(ret.value, FLAG_EMOJIS[i])

\* ------------------------------------------------------------------------
\* transform_name, called on one record

\* Names of records: plain, already carrying the prefix "A" or a prefix of
\* SOURCE_PREFIX_MAP, flagged.
RENAME_NAMES ==
    { <<"x">>,
      <<"A", " ", "x">>,
      <<"A", "-", "x">>,
      <<"u9B54", "u6212", " ", "x">>,
      <<"u1F1EF", "u1F1F5", "y">> }

\* Source names: an alias outside SOURCE_PREFIX_MAP, a key it maps to itself and
\* a key it maps to another prefix.
RENAME_SOURCES ==
    { <<"A">>,
      <<"u9B54", "u6212">>,
      <<"u6D41", "u91CF", "u5149", "u673A", "u573A">> }

\* The record dicts a caller can pass, as the heap holding them: object 1 is the
\* record, with or without a name, and object 2 the nested ws-opts dict of a
\* record that has one.
RECORD_HEAPS ==
    {[o \in {1} |-> [name |-> n, server |-> s]] : n \in RENAME_NAMES, s \in SERVERS \cup {<<>>}}
    \cup {[o \in {1, 2} |-> IF o = 1 THEN [name |-> n, server |-> s, ws_opts |-> 2]
                                   ELSE [path |-> <<"/">>]] :
             n \in RENAME_NAMES, s \in SERVERS \cup {<<>>}}
    \cup {[o \in {1} |-> [server |-> s]] : s \in SERVERS}
    \cup {[o \in {1, 2} |-> IF o = 1 THEN [server |-> s, ws_opts |-> 2]
                                   ELSE [path |-> <<"/">>]] : s \in SERVERS}

InitRename ==
    /\ Imported /\ NoPass
    /\ heap \in RECORD_HEAPS
    /\ \E s \in RENAME_SOURCES : input = [proxy |-> 1, source_name |-> s, heap |-> heap, cache |-> geoip_cache]
    /\ ret = <<>>
    /\ pc = "call"

\* NameTransformer.transform_name(proxy, source_name): a record without a name is
\* returned as it is; otherwise proxy.copy(), a new dict holding the same values,
\* gets the new name.
TransformName ==
    /\ pc = "call"
    /\ LET proxy == heap[input.proxy]
       IN  IF "name" \notin DOMAIN proxy
           THEN /\ ret' = [op |-> "transform_name", value |-> input.proxy]
                /\ UNCHANGED <<heap, geoip_cache>>
           ELSE LET server == IF "server" \in DOMAIN proxy THEN proxy.server ELSE <<>>
                    new_proxy == Len(heap) + 1
                IN  /\ heap' = Append(heap,
                           [proxy EXCEPT !.name =
                               new_name(proxy.name, server, input.source_name, geoip_cache)])
                    /\ geoip_cache' = identify_flag(proxy.name, server, geoip_cache).cache
                    /\ ret' = [op |-> "transform_name", value |-> new_proxy]
    /\ pc' = "done"
    /\ UNCHANGED <<GEOIP_AVAILABLE, patterns_added, input>>
    /\ UNCHANGED passVars

NextRename == TransformName

SpecRename == InitRename /\ [][NextRename]_vars

\* The dict objects a record is made of: the dict and the dicts it refers to.
Objects(h, o) == {o} \cup (IF "ws_opts" \in DOMAIN h[o] THEN {h[o].ws_opts} ELSE {})

\* C7: transform_name leaves every field of its input as it was, and the record
\* it returns is a separate copy: no dict of the returned record, the record
\* itself or a nested one, is a dict of the input, so that a change made through
\* one is not seen through the other.
C7_ReturnsSeparateCopy ==
    pc = "done" =>
        /\ \A o \in DOMAIN input.heap : heap[o] = input.heap[o]
        /\ Objects(heap, ret.value) \cap Objects(heap, input.proxy) = {}

\* C8: the new name is "{flag} {prefix} {cleaned}", or "{flag} {cleaned}" when
\* the cleaned name already starts with the prefix and a space or a hyphen.
C8_PrefixAddedOnce ==
    pc = "done" /\ "name" \in DOMAIN heap[input.proxy] =>
        LET proxy == heap[input.proxy]
            prefix == DictGet(SOURCE_PREFIX_MAP, input.source_name, input.source_name)
            flag == identify_flag(proxy.name, proxy.server, input.cache).ret
            cleaned == Replace(remove_flags(proxy.name),
                               <<"[", "i", "p", "v", "6", "]">>, <<"i", "p", "v", "6">>)
        IN  heap[ret.value].name =
                IF StartsWith(cleaned, prefix \o <<" ">>) \/ StartsWith(cleaned, prefix \o <<"-">>)
                THEN flag \o <<" ">> \o cleaned
                ELSE flag \o <<" ">> \o prefix \o <<" ">> \o cleaned
\* The 128 code points a byte below 0x80 decodes to, in byte order.
ASCII ==
    <<
    "u0000", "u0001", "u0002", "u0003", "u0004", "u0005", "u0006", "u0007", "u0008", "\t", "\n", "u000B", "u000C", "u000D", "u000E", "u000F",
    "u0010", "u0011", "u0012", "u0013", "u0014", "u0015", "u0016", "u0017", "u0018", "u0019", "u001A", "u001B", "u001C", "u001D", "u001E", "u001F",
    " ", "!", "\"", "#", "$", "%", "&", "'", "(", ")", "*", "+", ",", "-", ".", "/",
    "0", "1", "2", "3", "4", "5", "6", "7", "8", "9", ":", ";", "<", "=", ">", "?",
    "@", "A", "B", "C", "D", "E", "F", "G", "H", "I", "J", "K", "L", "M", "N", "O",
    "P", "Q", "R", "S", "T", "U", "V", "W", "X", "Y", "Z", "[", "u005C", "]", "^", "_",
    "u0060", "a", "b", "c", "d", "e", "f", "g", "h", "i", "j", "k", "l", "m", "n", "o",
    "p", "q", "r", "s", "t", "u", "v", "w", "x", "y", "z", "{", "|", "}", "~", "u007F"
    >>

\* The base64 alphabet, in value order.
BASE64_ALPHABET ==
    <<
    "A", "B", "C", "D", "E", "F", "G", "H", "I", "J", "K", "L", "M", "N", "O", "P",
    "Q", "R", "S", "T", "U", "V", "W", "X", "Y", "Z", "a", "b", "c", "d", "e", "f",
    "g", "h", "i", "j", "k", "l", "m", "n", "o", "p", "q", "r", "s", "t", "u", "v",
    "w", "x", "y", "z", "0", "1", "2", "3", "4", "5", "6", "7", "8", "9", "+", "/"
    >>

\* ------------------------------------------------------------------------
\* The link decoders.  A decoder's outcome is a record, None, or an exception
\* that leaves the decoder.  In a record a str is a sequence of code points, None
\* is the value None below, and a port is <<n>> for the int n and <<>> for None.

None == <<"None">>

Max(S) == CHOOSE i \in S : \A j \in S : i >= j

\* str.find(c) and str.rfind(c), from 1; 0 when c is absent.
Find(s, c) == IF \E i \in 1..Len(s) : s[i] = c THEN Min({i \in 1..Len(s) : s[i] = c}) ELSE 0

RFind(s, c) == IF \E i \in 1..Len(s) : s[i] = c THEN Max({i \in 1..Len(s) : s[i] = c}) ELSE 0

\* s[i:] with i counted from 1.
From(s, i) == SubSeq(s, i, Len(s))

\* str.strip()
Strip(s) ==
    LET solid == {i \in 1..Len(s) : s[i] \notin Whitespace}
    IN  IF solid = {} THEN <<>> ELSE SubSeq(s, Min(solid), Max(solid))

LowerChar(c) == IF c \in UPPER_LETTERS THEN LOWER[CHOOSE i \in 1..Len(UPPER) : UPPER[i] = c] ELSE c

\* str.lower()
Lower(s) == [i \in 1..Len(s) |-> LowerChar(s[i])]

DIGITS == <<"0", "1", "2", "3", "4", "5", "6", "7", "8", "9">>

DigitValue(c) == (CHOOSE i \in 1..Len(DIGITS) : DIGITS[i] = c) - 1

\* str.isdigit(), for ASCII text.
IsDigit(s) == s # <<>> /\ \A i \in 1..Len(s) : \E d \in 1..Len(DIGITS) : DIGITS[d] = s[i]

RECURSIVE DecimalValue(_)
DecimalValue(s) ==
    IF s = <<>> THEN 0
    ELSE 10 * DecimalValue(SubSeq(s, 1, Len(s) - 1)) + DigitValue(s[Len(s)])

\* int(s): surrounding whitespace and one sign are accepted; anything but
\* decimal digits after that raises ValueError.
PyInt(s) ==
    LET t == Strip(s)
        signed == t # <<>> /\ t[1] \in {"+", "-"}
        digits == IF signed THEN Tail(t) ELSE t
    IN  IF ~IsDigit(digits) THEN [raises |-> TRUE]
        ELSE [raises |-> FALSE,
              value |-> IF signed /\ t[1] = "-" THEN 0 - DecimalValue(digits)
                        ELSE DecimalValue(digits)]

HEX_DIGITS == <<"0", "1", "2", "3", "4", "5", "6", "7", "8", "9", "A", "B", "C", "D", "E", "F">>

IsHex(c) == \E i \in 1..Len(HEX_DIGITS) : HEX_DIGITS[i] = UpperChar(c)

HexValue(c) == (CHOOSE i \in 1..Len(HEX_DIGITS) : HEX_DIGITS[i] = UpperChar(c)) - 1

\* urllib.parse.unquote: every %XX escape becomes the character of byte XX (an
\* escape of a byte below 0x80; the links drawn hold no other), a % that starts
\* no escape stays.
RECURSIVE unquote(_)
unquote(s) ==
    IF s = <<>> THEN <<>>
    ELSE IF s[1] = "%" /\ Len(s) >= 3 /\ IsHex(s[2]) /\ IsHex(s[3])
         THEN <<ASCII[16 * HexValue(s[2]) + HexValue(s[3]) + 1]>> \o unquote(From(s, 4))
         ELSE <<s[1]>> \o unquote(Tail(s))

Base64Value(c) == (CHOOSE i \in 1..Len(BASE64_ALPHABET) : BASE64_ALPHABET[i] = c) - 1

\* base64.b64decode of text without "=" to which `padding` "=" were appended:
\* characters outside the alphabet are skipped, every 4 data characters give 3
\* bytes, 2 or 3 left over give 1 or 2 bytes if the padding completes the group,
\* and anything else raises binascii.Error.
b64decode(content, padding) ==
    LET Decode(data) ==
            LET left == Len(data) % 4
                v(i) == Base64Value(data[i])
                byte(k) ==
                    LET base == 4 * ((k - 1) \div 3)
                    IN  CASE (k - 1) % 3 = 0 -> v(base + 1) * 4 + v(base + 2) \div 16
                          [] (k - 1) % 3 = 1 -> (v(base + 2) % 16) * 16 + v(base + 3) \div 4
                          [] (k - 1) % 3 = 2 -> (v(base + 3) % 4) * 64 + v(base + 4)
            IN  IF left = 1 \/ (left = 2 /\ padding < 2) \/ (left = 3 /\ padding < 1)
                THEN [raises |-> TRUE]
                ELSE [raises |-> FALSE, bytes |-> [k \in 1..((Len(data) * 3) \div 4) |-> byte(k)]]
    IN  Decode(SelectSeq(content, LAMBDA c : \E i \in 1..Len(BASE64_ALPHABET) : BASE64_ALPHABET[i] = c))

\* bytes.decode('utf-8'): a byte below 0x80 is its ASCII character; a byte that
\* can start no character (0x80..0xC1, 0xF5..0xFF) raises UnicodeDecodeError.
\* (Multi-byte characters are in none of the links drawn.)
decode_utf8(bytes) ==
    IF \A k \in 1..Len(bytes) : bytes[k] < 128
    THEN [raises |-> FALSE, text |-> [k \in 1..Len(bytes) |-> ASCII[bytes[k] + 1]]]
    ELSE LET first == Min({k \in 1..Len(bytes) : bytes[k] >= 128})
         IN  CASE bytes[first] \in (128..193) \cup (245..255) -> [raises |-> TRUE]

\* decode_base64(content): "" when decoding raises.
decode_base64(content) ==
    LET Utf8(text) == IF text.raises THEN <<>> ELSE text.text
        Bytes(decoded) == IF decoded.raises THEN <<>> ELSE Utf8(decode_utf8(decoded.bytes))
        Padded(stripped) ==
            LET missing_padding == Len(stripped) % 4
                padding == IF missing_padding # 0 THEN 4 - missing_padding ELSE 0
            IN  Bytes(b64decode(stripped, padding))
    IN  Padded(Replace(Replace(Strip(content), <<"-">>, <<"+">>), <<"_">>, <<"/">>))

\* The outcomes of a decoder.
Record(fields) == [outcome |-> "record", record |-> fields]

ReturnsNone == [outcome |-> "None"]

Raises(error) == [outcome |-> "raises", error |-> error]

\* link.rsplit('#', 1): the link and the name after its last "#".
RSplitFragment(link) ==
    LET i == RFind(link, "#")
    IN  IF i = 0 THEN [link |-> link, has_name |-> FALSE]
        ELSE [link |-> SubSeq(link, 1, i - 1), has_name |-> TRUE, name |-> From(link, i + 1)]

\* urlparse(link).netloc: what follows "scheme://" up to the first "/", "?" or "#".
Netloc(link, scheme_len) ==
    LET rest == From(link, scheme_len + 1)
        ends == {i \in 1..Len(rest) : rest[i] \in {"/", "?", "#"}}
    IN  IF ends = {} THEN rest ELSE SubSeq(rest, 1, Min(ends) - 1)

\* The IPv6 addresses of the links drawn; urlparse takes any address that
\* ipaddress.ip_address accepts.
IPV6_ADDRESSES == {<<":", ":", "1">>}

\* urlparse(link) raises ValueError for a netloc with one bracket but not the
\* other, and for a bracketed host that is no IPv6 address.
UrlParseRaises(netloc) ==
    LET hostinfo == From(netloc, RFind(netloc, "@") + 1)
        bracketed == From(hostinfo, Find(hostinfo, "[") + 1)
        close == Find(bracketed, "]")
    IN  IF Find(netloc, "[") = 0 /\ Find(netloc, "]") = 0 THEN FALSE
        ELSE IF Find(netloc, "[") = 0 \/ Find(netloc, "]") = 0 THEN TRUE
        ELSE SubSeq(bracketed, 1, close - 1) \notin IPV6_ADDRESSES

\* The host and port text of a netloc: of what follows the last "@", the text
\* between "[" and "]" and what follows the first ":" after it, or without
\* brackets the text before and after the first ":".
Hostinfo(netloc) ==
    LET hostinfo == From(netloc, RFind(netloc, "@") + 1)
        open == Find(hostinfo, "[")
        bracketed == From(hostinfo, open + 1)
        close == Find(bracketed, "]")
        after == IF close = 0 THEN <<>> ELSE From(bracketed, close + 1)
        colon == IF open # 0 THEN Find(after, ":") ELSE Find(hostinfo, ":")
    IN  IF open # 0
        THEN [hostname |-> IF close = 0 THEN bracketed ELSE SubSeq(bracketed, 1, close - 1),
              port |-> IF colon = 0 THEN <<>> ELSE From(after, colon + 1)]
        ELSE IF colon = 0 THEN [hostname |-> hostinfo, port |-> <<>>]
        ELSE [hostname |-> SubSeq(hostinfo, 1, colon - 1), port |-> From(hostinfo, colon + 1)]

\* urlparse(link).hostname: lower case, None when empty.
Hostname(netloc) ==
    IF Hostinfo(netloc).hostname = <<>> THEN None ELSE Lower(Hostinfo(netloc).hostname)

\* urlparse(link).port: None without port text, ValueError when the text is no
\* number or the number is above 65535.
Port(netloc) ==
    LET port == Hostinfo(netloc).port
    IN  IF port = <<>> THEN [raises |-> FALSE, value |-> <<>>]
        ELSE IF ~IsDigit(port) THEN [raises |-> TRUE]
        ELSE IF DecimalValue(port) > 65535 THEN [raises |-> TRUE]
        ELSE [raises |-> FALSE, value |-> <<DecimalValue(port)>>]

\* urlparse(link).username: None without "@", else the user info up to its
\* first ":".
Username(netloc) ==
    LET at == RFind(netloc, "@")
        userinfo == SubSeq(netloc, 1, at - 1)
        colon == Find(userinfo, ":")
    IN  IF at = 0 THEN None
        ELSE IF colon = 0 THEN userinfo
        ELSE SubSeq(userinfo, 1, colon - 1)

VLESS_SCHEME == <<"v", "l", "e", "s", "s", ":", "/", "/">>

HYSTERIA_SCHEME == <<"h", "y", "s", "t", "e", "r", "i", "a", ":", "/", "/">>

HY_SCHEME == <<"h", "y", ":", "/", "/">>

SS_SCHEME == <<"s", "s", ":", "/", "/">>

VLESS_NODE == <<"V", "L", "E", "S", "S", " ", "N", "o", "d", "e">>

HYSTERIA_NODE == <<"H", "y", "s", "t", "e", "r", "i", "a", " ", "N", "o", "d", "e">>

\* server.py parse_vless_link, for a link without a query: nothing catches the
\* ValueError of urlparse and of parsed.port.
parse_vless_link(raw) ==
    LET link == Strip(raw)
        split == RSplitFragment(link)
        name == IF split.has_name THEN unquote(split.name) ELSE VLESS_NODE
        netloc == Netloc(split.link, Len(VLESS_SCHEME))
    IN  IF ~StartsWith(link, VLESS_SCHEME) THEN ReturnsNone
        ELSE IF UrlParseRaises(netloc) \/ Port(netloc).raises THEN Raises("ValueError")
        ELSE Record([name |-> name, type |-> "vless", server |-> Hostname(netloc),
                     port |-> Port(netloc).value, uuid |-> Username(netloc), udp |-> TRUE])

\* server.py parse_hysteria_link, for a link without a query: port text that
\* is no number becomes 443, and so does a missing port.
parse_hysteria_link(raw) ==
    LET link == Strip(raw)
        split == RSplitFragment(link)
        name == IF split.has_name THEN unquote(split.name) ELSE HYSTERIA_NODE
        server_part == IF StartsWith(split.link, HYSTERIA_SCHEME)
                       THEN From(split.link, 12) ELSE From(split.link, 6)
        colon == RFind(server_part, ":")
        server == IF colon = 0 THEN server_part ELSE SubSeq(server_part, 1, colon - 1)
        port_str == From(server_part, colon + 1)
        port == IF colon # 0 /\ IsDigit(port_str) THEN DecimalValue(port_str) ELSE 443
    IN  IF ~StartsWith(link, HYSTERIA_SCHEME) /\ ~StartsWith(link, HY_SCHEME) THEN ReturnsNone
        ELSE Record([name |-> name, type |-> "hysteria", server |-> server,
                     port |-> <<port>>, protocol |-> "udp"])

ANYTLS_SCHEME == <<"a", "n", "y", "t", "l", "s", ":", "/", "/">>

ANYTLS_NODE == <<"A", "n", "y", "T", "L", "S", " ", "N", "o", "d", "e">>

\* server.py parse_anytls_link, for a link without a query: no port and port 0
\* become 443, no user info becomes the password '', an exception gives None.
parse_anytls_link(raw) ==
    LET link == Strip(raw)
        split == RSplitFragment(link)
        name == IF split.has_name THEN unquote(split.name) ELSE ANYTLS_NODE
        netloc == Netloc(split.link, Len(ANYTLS_SCHEME))
        username == Username(netloc)
    IN  IF ~StartsWith(link, ANYTLS_SCHEME) THEN ReturnsNone
        ELSE IF UrlParseRaises(netloc) \/ Port(netloc).raises THEN ReturnsNone
        ELSE Record([name |-> name, type |-> "anytls", server |-> Hostname(netloc),
                     port |-> IF Port(netloc).value \in {<<>>, <<0>>} THEN <<443>>
                              ELSE Port(netloc).value,
                     password |-> IF username \in {None, <<>>} THEN <<>> ELSE unquote(username)])

\* server.py parse_node_link: the decoder of the link's scheme, None for a
\* scheme it does not know.  (Of its thirteen schemes the three above are
\* modelled.)
parse_node_link(raw) ==
    LET link == Strip(raw)
    IN  IF StartsWith(link, VLESS_SCHEME) THEN parse_vless_link(link)
        ELSE IF StartsWith(link, HYSTERIA_SCHEME) \/ StartsWith(link, HY_SCHEME)
             THEN parse_hysteria_link(link)
        ELSE IF StartsWith(link, ANYTLS_SCHEME) THEN parse_anytls_link(link)
        ELSE ReturnsNone

\* merge_config.py SubscriptionParser.parse_ss: int(port) is not checked
\* against a range, and an exception gives None.
parse_ss(ss_url) ==
    LET body == From(ss_url, 6)
        hash == Find(body, "#")
        main == IF hash = 0 THEN body ELSE SubSeq(body, 1, hash - 1)
        remark == IF hash = 0 THEN <<"s", "s">> ELSE unquote(From(body, hash + 1))
        at == Find(main, "@")
        decoded == decode_base64(main)
        at2 == Find(decoded, "@")
        user_pass == IF at # 0 THEN decode_base64(SubSeq(main, 1, at - 1))
                     ELSE SubSeq(decoded, 1, at2 - 1)
        host_port == IF at # 0 THEN From(main, at + 1) ELSE From(decoded, at2 + 1)
        colon == Find(user_pass, ":")
        port_colon == RFind(host_port, ":")
    IN  IF at = 0 /\ at2 = 0 THEN ReturnsNone
        ELSE IF colon = 0 THEN ReturnsNone
        ELSE IF port_colon = 0 THEN ReturnsNone
        ELSE IF PyInt(From(host_port, port_colon + 1)).raises THEN ReturnsNone
        ELSE Record([name |-> remark, type |-> "ss",
                     server |-> SubSeq(host_port, 1, port_colon - 1),
                     port |-> <<PyInt(From(host_port, port_colon + 1)).value>>,
                     cipher |-> SubSeq(user_pass, 1, colon - 1),
                     password |-> From(user_pass, colon + 1),
                     udp |-> TRUE])

\* ------------------------------------------------------------------------
\* The decoders of merge_config.py that read "credential@host:port?query#remark"

\* s.split(c): the pieces of s between the occurrences of the character c.
RECURSIVE Split(_, _)
Split(s, c) ==
    IF Find(s, c) = 0 THEN <<s>>
    ELSE <<SubSeq(s, 1, Find(s, c) - 1)>> \o Split(From(s, Find(s, c) + 1), c)

\* d[k] = v on a dict kept as a sequence of pairs.
DictSet(d, k, v) ==
    IF DictHas(d, k) THEN [i \in 1..Len(d) |-> IF d[i][1] = k THEN <<k, v>> ELSE d[i]]
    ELSE Append(d, <<k, v>>)

\* The loop over query.split('&'): a pair with "=" sets params[k] = v.
RECURSIVE ParamsFrom(_, _, _)
ParamsFrom(pairs, i, params) ==
    IF i > Len(pairs) THEN params
    ELSE LET eq == Find(pairs[i], "=")
         IN  ParamsFrom(pairs, i + 1,
                 IF eq = 0 THEN params
                 ELSE DictSet(params, SubSeq(pairs[i], 1, eq - 1), From(pairs[i], eq + 1)))

Params(query) == IF query = <<>> THEN <<>> ELSE ParamsFrom(Split(query, "&"), 1, <<>>)

\* A dict without keys.
NoFields == [k \in {} |-> k]

\* The head of the four decoders: the remark after the first "#" (or the
\* default), the query after the first "?", the credential before the first "@"
\* and the host:port text after it.
SplitUrl(url, scheme_len, default_remark) ==
    LET body == From(url, scheme_len + 1)
        hash == Find(body, "#")
        before == IF hash = 0 THEN body ELSE SubSeq(body, 1, hash - 1)
        mark == Find(before, "?")
        main == IF mark = 0 THEN before ELSE SubSeq(before, 1, mark - 1)
        at == Find(main, "@")
    IN  [remark |-> IF hash = 0 THEN default_remark ELSE unquote(From(body, hash + 1)),
         query |-> IF mark = 0 THEN <<>> ELSE From(before, mark + 1),
         has_at |-> at # 0,
         credential |-> SubSeq(main, 1, at - 1),
         host_port |-> From(main, at + 1)]

\* host_port.rsplit(':', 1)
ServerOf(host_port) == SubSeq(host_port, 1, RFind(host_port, ":") - 1)

PortOf(host_port) == From(host_port, RFind(host_port, ":") + 1)

SNI == <<"s", "n", "i">>

\* SubscriptionParser.parse_trojan
parse_trojan(trojan_url) ==
    LET u == SplitUrl(trojan_url, 9, <<"t", "r", "o", "j", "a", "n">>)
        params == Params(u.query)
        port == PyInt(PortOf(u.host_port))
        allowInsecure == <<"a", "l", "l", "o", "w", "I", "n", "s", "e", "c", "u", "r", "e">>
    IN  IF ~u.has_at THEN ReturnsNone
        ELSE IF Find(u.host_port, ":") = 0 THEN ReturnsNone
        ELSE IF port.raises THEN ReturnsNone
        ELSE Record(
            (IF DictHas(params, SNI) THEN [sni |-> DictGet(params, SNI, <<>>)] ELSE NoFields)
            @@ [name |-> u.remark, type |-> "trojan", server |-> ServerOf(u.host_port),
                port |-> <<port.value>>, password |-> u.credential, udp |-> TRUE,
                skip_cert_verify |-> IF DictHas(params, allowInsecure)
                                     THEN DictGet(params, allowInsecure, <<>>) = <<"1">>
                                     ELSE TRUE])

\* SubscriptionParser.parse_hysteria2: the first 12 characters are cut off
\* whatever the scheme is; a "#" that is only among them makes the unpacking of
\* split('#', 1) raise, which returns None. With "]:" in host_port the brackets
\* are taken off the server.
parse_hysteria2(hy2_url) ==
    LET u == SplitUrl(hy2_url, 12, <<"h", "y", "2">>)
        params == Params(u.query)
        port == PyInt(PortOf(u.host_port))
        server == IF Contains(u.host_port, <<"]", ":">>)
                  THEN Replace(Replace(ServerOf(u.host_port), <<"[">>, <<>>), <<"]">>, <<>>)
                  ELSE ServerOf(u.host_port)
        insecure == <<"i", "n", "s", "e", "c", "u", "r", "e">>
        obfs == <<"o", "b", "f", "s">>
        obfs_password == <<"o", "b", "f", "s", "-", "p", "a", "s", "s", "w", "o", "r", "d">>
    IN  IF Find(hy2_url, "#") # 0 /\ Find(From(hy2_url, 13), "#") = 0 THEN ReturnsNone
        ELSE IF ~u.has_at THEN ReturnsNone
        ELSE IF Find(u.host_port, ":") = 0 THEN ReturnsNone
        ELSE IF port.raises THEN ReturnsNone
        ELSE Record(
            (IF DictHas(params, SNI) THEN [sni |-> DictGet(params, SNI, <<>>)] ELSE NoFields)
            @@ (IF DictHas(params, insecure)
                THEN [skip_cert_verify |-> DictGet(params, insecure, <<>>) = <<"1">>]
                ELSE NoFields)
            @@ (IF DictHas(params, obfs_password)
                THEN [obfs_password |-> DictGet(params, obfs_password, <<>>)] ELSE NoFields)
            @@ [name |-> u.remark, type |-> "hysteria2", server |-> server,
                port |-> <<port.value>>, password |-> u.credential, udp |-> TRUE,
                obfs |-> DictGet(params, obfs, <<"n", "o", "n", "e">>)])

\* SubscriptionParser.parse_vless, for a query without type and security (the
\* network is then "tcp" and no transport or TLS field is set).
parse_vless(vless_url) ==
    LET u == SplitUrl(vless_url, 8, <<"v", "l", "e", "s", "s">>)
        port == PyInt(PortOf(u.host_port))
    IN  IF ~u.has_at THEN ReturnsNone
        ELSE IF Find(u.host_port, ":") = 0 THEN ReturnsNone
        ELSE IF port.raises THEN ReturnsNone
        ELSE Record([name |-> u.remark, type |-> "vless", server |-> ServerOf(u.host_port),
                     port |-> <<port.value>>, uuid |-> u.credential, udp |-> TRUE,
                     cipher |-> <<"a", "u", "t", "o">>, network |-> <<"t", "c", "p">>])

\* str(n) of an integer that is not negative.
DecimalText(n) ==
    LET RECURSIVE Digits(_)
        Digits(m) == IF m < 10 THEN <<DIGITS[m + 1]>> ELSE Digits(m \div 10) \o <<DIGITS[(m % 10) + 1]>>
    IN  Digits(n)

\* What an f-string writes for a field that holds a str or None.
Text(value) == IF value = None THEN <<"N", "o", "n", "e">> ELSE value

\* What an f-string writes for proxy.get('port', ''): the number, or None.
PortText(port) == IF port = <<>> THEN <<"N", "o", "n", "e">> ELSE DecimalText(port[1])

\* The characters urllib.parse.quote leaves as they are (safe='/').
QUOTE_SAFE == LOWER_LETTERS \cup UPPER_LETTERS \cup {"0", "1", "2", "3", "4", "5", "6", "7", "8", "9"} \cup {"_", ".", "-", "~", "/"}

\* urllib.parse.quote of text of code points below 128: every other character
\* becomes % and the two upper-case hex digits of its byte.
quote(s) ==
    LET RECURSIVE QuoteFrom(_)
        QuoteFrom(i) ==
            IF i > Len(s) THEN <<>>
            ELSE IF s[i] \in QUOTE_SAFE THEN <<s[i]>> \o QuoteFrom(i + 1)
            ELSE LET byte == (CHOOSE b \in 1..Len(ASCII) : ASCII[b] = s[i]) - 1
                 IN  <<"%", HEX_DIGITS[(byte \div 16) + 1], HEX_DIGITS[(byte % 16) + 1]>> \o QuoteFrom(i + 1)
    IN  QuoteFrom(1)

HYSTERIA_QUERY_KEYS == {"auth_str", "sni", "up", "down"}

VLESS_QUERY_KEYS == {"network", "tls", "servername", "client_fingerprint", "flow"}

\* server.py proxy_to_link, for a record that has none of the keys that make a
\* query parameter: a vless and a hysteria record are written as a link, and a
\* record of a kind without a branch (anytls, wireguard, snell) gives ''.
proxy_to_link(proxy) ==
    IF proxy.type = "vless" /\ DOMAIN proxy \cap VLESS_QUERY_KEYS = {}
    THEN VLESS_SCHEME \o Text(proxy.uuid) \o <<"@">> \o Text(proxy.server) \o <<":">>
         \o PortText(proxy.port) \o <<"#">> \o quote(proxy.name)
    ELSE IF proxy.type = "hysteria" /\ DOMAIN proxy \cap HYSTERIA_QUERY_KEYS = {}
    THEN HYSTERIA_SCHEME \o Text(proxy.server) \o <<":">> \o PortText(proxy.port)
         \o <<"#">> \o quote(proxy.name)
    ELSE <<>>

\* ------------------------------------------------------------------------
\* The decoders, called on one link.  A link is written from its parts, and
\* input keeps the host and port text it was written from next to the link.

USERINFOS == {<<>>, <<"u", "@">>}

\* No host, a name in either case, and a bracketed IPv6 address.
HOSTS == {<<>>, <<"h">>, <<"H">>, <<"[", ":", ":", "1", "]">>}

\* No port, an empty one, 0, 1, the largest port, one above it, no number, and
\* a negative number.
PORTS ==
    { <<>>, <<":">>, <<":", "0">>, <<":", "1">>, <<":", "6", "5", "5", "3", "5">>,
      <<":", "6", "5", "5", "3", "6">>, <<":", "x">>, <<":", "-", "5">> }

\* No name, an empty one, "n", and the escape of "A".
FRAGMENTS == {<<>>, <<"#">>, <<"#", "n">>, <<"#", "%", "4", "1">>}

\* base64 of "m:p" and of "m", a byte that is no UTF-8, and text that is no base64.
SS_USERINFOS == {<<"b", "T", "p", "w">>, <<"b", "Q">>, <<"/", "w">>, <<"b">>}

\* ss links of the second format: the base64 of "method:password@host:port".
SS_ENCODED ==
    {
      [body |-> <<"b", "T", "p", "w", "Q", "G", "g", "6", "M", "Q">>,
       host |-> <<"h">>, port |-> <<":", "1">>],
      [body |-> <<"b", "T", "p", "w", "Q", "G", "g", "6", "M", "A">>,
       host |-> <<"h">>, port |-> <<":", "0">>],
      [body |-> <<"b", "T", "p", "w", "Q", "D", "o", "x">>,
       host |-> <<>>, port |-> <<":", "1">>],
      [body |-> <<"b", "T", "p", "w", "Q", "G", "g", "6", "e", "A">>,
       host |-> <<"h">>, port |-> <<":", "x">>],
      [body |-> <<"b", "T", "p", "w", "Q", "G", "g">>,
       host |-> <<"h">>, port |-> <<>>],
      [body |-> <<"b", "T", "p", "w", "Q", "G", "g", "6", "N", "j", "U", "1", "M", "z", "Y">>,
       host |-> <<"h">>, port |-> <<":", "6", "5", "5", "3", "6">>],
      [body |-> <<"b", "U", "B", "o", "O", "j", "E">>,
       host |-> <<"h">>, port |-> <<":", "1">>]
    }

LINKS ==
    {[link |-> s \o u \o h \o p \o f, host |-> h, port |-> p] :
        s \in {VLESS_SCHEME, HYSTERIA_SCHEME, HY_SCHEME, ANYTLS_SCHEME, <<"x", ":", "/", "/">>},
        u \in USERINFOS, h \in HOSTS, p \in PORTS, f \in FRAGMENTS}

SS_LINKS ==
    {[link |-> SS_SCHEME \o u \o <<"@">> \o h \o p \o f, host |-> h, port |-> p] :
        u \in SS_USERINFOS, h \in HOSTS, p \in PORTS, f \in FRAGMENTS}
    \cup {[link |-> SS_SCHEME \o e.body \o f, host |-> e.host, port |-> e.port] :
             e \in SS_ENCODED, f \in FRAGMENTS}

TROJAN_SCHEME == <<"t", "r", "o", "j", "a", "n", ":", "/", "/">>

HYSTERIA2_SCHEME == <<"h", "y", "s", "t", "e", "r", "i", "a", "2", ":", "/", "/">>

HY2_SCHEME == <<"h", "y", "2", ":", "/", "/">>

\* No query, one parameter, and two.
QUERIES ==
    { <<>>,
      <<"?", "s", "n", "i", "=", "x">>,
      <<"?", "s", "n", "i", "=", "x", "&", "i", "n", "s", "e", "c", "u", "r", "e", "=", "1">> }

\* Links for the decoders of merge_config.py, with and without a query.
URL_LINKS ==
    {[link |-> s \o u \o h \o p \o q \o f, host |-> h, port |-> p] :
        s \in {VLESS_SCHEME, TROJAN_SCHEME, HYSTERIA2_SCHEME, HY2_SCHEME},
        u \in USERINFOS, h \in HOSTS \ {<<"H">>},
        p \in {<<>>, <<":", "1">>, <<":", "x">>},
        q \in QUERIES, f \in {<<>>, <<"#", "n">>}}

InitDecode ==
    /\ Imported /\ NoPass
    /\ heap = <<>>
    /\ input \in LINKS \cup SS_LINKS \cup URL_LINKS
    /\ ret = <<>>
    /\ pc = "call"

\* The links parse_node_link is modelled for: no query, and a scheme of a
\* decoder modelled or a scheme it does not know.
ForParseNodeLink(link) ==
    /\ Find(link, "?") = 0
    /\ ~StartsWith(link, SS_SCHEME)
    /\ ~StartsWith(link, TROJAN_SCHEME)
    /\ ~StartsWith(link, HYSTERIA2_SCHEME)
    /\ ~StartsWith(link, HY2_SCHEME)

\* server.py parse_node_link(link)
ParseNodeLink ==
    /\ pc = "call"
    /\ ForParseNodeLink(input.link)
    /\ ret' = [op |-> "parse_node_link"] @@ parse_node_link(input.link)
    /\ pc' = "done"
    /\ UNCHANGED <<heap, input>>
    /\ UNCHANGED geoVars
    /\ UNCHANGED passVars

\* merge_config.py parse_content: a line that starts with ss:// goes to parse_ss.
ParseSS ==
    /\ pc = "call"
    /\ StartsWith(input.link, SS_SCHEME)
    /\ ret' = [op |-> "parse_ss"] @@ parse_ss(input.link)
    /\ pc' = "done"
    /\ UNCHANGED <<heap, input>>
    /\ UNCHANGED geoVars
    /\ UNCHANGED passVars

\* merge_config.py parse_content: a line that starts with trojan:// goes to
\* parse_trojan.
ParseTrojan ==
    /\ pc = "call"
    /\ StartsWith(input.link, TROJAN_SCHEME)
    /\ ret' = [op |-> "parse_trojan"] @@ parse_trojan(input.link)
    /\ pc' = "done"
    /\ UNCHANGED <<heap, input>>
    /\ UNCHANGED geoVars
    /\ UNCHANGED passVars

\* merge_config.py parse_content: a line that starts with vless:// goes to
\* parse_vless.
ParseVless ==
    /\ pc = "call"
    /\ StartsWith(input.link, VLESS_SCHEME)
    /\ ret' = [op |-> "parse_vless"] @@ parse_vless(input.link)
    /\ pc' = "done"
    /\ UNCHANGED <<heap, input>>
    /\ UNCHANGED geoVars
    /\ UNCHANGED passVars

\* merge_config.py parse_content: a line that starts with hysteria2:// or hy2://
\* goes to parse_hysteria2.
ParseHysteria2 ==
    /\ pc = "call"
    /\ StartsWith(input.link, HYSTERIA2_SCHEME) \/ StartsWith(input.link, HY2_SCHEME)
    /\ ret' = [op |-> "parse_hysteria2"] @@ parse_hysteria2(input.link)
    /\ pc' = "done"
    /\ UNCHANGED <<heap, input>>
    /\ UNCHANGED geoVars
    /\ UNCHANGED passVars

\* server.py: the record parse_node_link made is written as a link by
\* proxy_to_link and the link is decoded again.
RoundTrip ==
    /\ pc = "done"
    /\ ret.op = "parse_node_link"
    /\ ret.outcome = "record"
    /\ LET link == proxy_to_link(ret.record)
       IN  ret' = [op |-> "round_trip", link |-> link, first |-> ret.record] @@ parse_node_link(link)
    /\ pc' = "again"
    /\ UNCHANGED <<heap, input>>
    /\ UNCHANGED geoVars
    /\ UNCHANGED passVars

NextDecode == ParseNodeLink \/ ParseSS \/ ParseTrojan \/ ParseVless \/ ParseHysteria2 \/ RoundTrip

SpecDecode == InitDecode /\ [][NextDecode]_vars

\* The kinds of a ProxyRecord.
KINDS ==
    {"vmess", "vless", "ss", "ssr", "trojan", "hysteria", "hysteria2", "tuic", "anytls",
     "wireguard", "socks5", "http", "snell"}

\* The port the link was written with is a number.
WrittenPortIsNumber == input.port # <<>> /\ IsDigit(Tail(input.port))

WrittenPort == DecimalValue(Tail(input.port))

\* C9: a record a decoder returns has a non-empty name, a kind of the
\* enumeration, a non-empty server and a port in 1..65535; a link without host
\* or port, or with port 0 or a port above 65535, gives no record.
C9_DecodedRecordIsValid ==
    pc = "done" =>
        /\ ret.outcome = "record" =>
               /\ ret.record.name \notin {<<>>, None}
               /\ ret.record.type \in KINDS
               /\ ret.record.server \notin {<<>>, None}
               /\ Len(ret.record.port) = 1
               /\ ret.record.port[1] \in 1..65535
        /\ (input.host = <<>> \/ ~WrittenPortIsNumber \/ WrittenPort \notin 1..65535)
               => ret.outcome # "record"

\* C10: a decoder returns a record or the failure value and never raises; a
\* record's port is the number the link was written with, never a default put
\* in place of port text that is no number, and its server and its credential
\* are not left empty.
C10_DecodeTotalAllOrNothing ==
    pc = "done" =>
        /\ ret.outcome # "raises"
        /\ ret.outcome = "record" =>
               /\ input.port \notin {<<>>, <<":">>} =>
                      WrittenPortIsNumber /\ ret.record.port = <<WrittenPort>>
               /\ ret.record.server \notin {<<>>, None}
               /\ "uuid" \in DOMAIN ret.record => ret.record.uuid \notin {<<>>, None}
               /\ "password" \in DOMAIN ret.record => ret.record.password # <<>>

\* C11: a decoder that reads a host:port pair takes the brackets off an IPv6
\* literal: a link written with the authority "[addr]:port" gives a record
\* whose server is addr and whose port is the number written.
C11_IPv6Unwrapped ==
    pc = "done" /\ ret.outcome = "record" =>
        \A addr \in IPV6_ADDRESSES :
            input.host = <<"[">> \o addr \o <<"]">> /\ WrittenPortIsNumber =>
                ret.record.server = addr /\ ret.record.port = <<WrittenPort>>

\* C12: round trip. Every record parse_node_link makes is written by
\* proxy_to_link as a link that is not empty, and decoding that link gives the
\* same record again, field by field.
C12_RoundTrip ==
    pc = "again" => ret.link # <<>> /\ ret.outcome = "record" /\ ret.record = ret.first
\* ------------------------------------------------------------------------
\* ProxyFilter and ConfigMerger.load_source_proxies

\* ProxyFilter.INVALID_KEYWORDS
INVALID_KEYWORDS ==
    <<
    <<"u5269", "u4F59", "u6D41", "u91CF">>,
    <<"u5957", "u9910", "u5230", "u671F">>,
    <<"u8DDD", "u79BB", "u4E0B", "u6B21", "u91CD", "u7F6E">>,
    <<"u5EFA", "u8BAE">>,
    <<"u5B98", "u7F51">>,
    <<"u672A", "u5230", "u671F">>,
    <<"u5269", "u4F59">>,
    <<"u5230", "u671F">>,
    <<"u91CD", "u7F6E">>
    >>

\* ignore_keywords of load_source_proxies
ignore_keywords ==
    <<
    <<"u5269", "u4F59", "u6D41", "u91CF">>,
    <<"u5230", "u671F">>,
    <<"u91CD", "u7F6E">>,
    <<"u5B98", "u7F51">>,
    <<"u5EFA", "u8BAE">>,
    <<"u8FC7", "u6EE4", "u6389">>,
    <<"u672A", "u5230", "u671F">>,
    <<"u65E0", "u6548">>,
    <<"u6D4B", "u8BD5">>,
    <<"u90AE", "u4EF6">>,
    <<"u8054", "u7CFB">>,
    <<"u7FA4">>,
    <<"u9891", "u9053">>,
    <<"u66F4", "u65B0">>,
    <<"u53D1", "u5E03">>,
    <<"A", "P", "P">>,
    <<"u6559", "u7A0B">>,
    <<"u65E0", "u6CD5">>
    >>

\* str.endswith
EndsWith(s, p) == Len(p) <= Len(s) /\ SubSeq(s, Len(s) - Len(p) + 1, Len(s)) = p

\* ord() of a character below 128.
Ord(c) == (CHOOSE b \in 1..Len(ASCII) : ASCII[b] = c) - 1

\* a < b for two str: the first place they differ decides, by code point, and
\* a proper prefix is the smaller.
StrLess(a, b) ==
    \E i \in 1..(Len(b)) :
        /\ \A j \in 1..(i - 1) : j <= Len(a) /\ a[j] = b[j]
        /\ i - 1 <= Len(a)
        /\ (i > Len(a) \/ Ord(a[i]) < Ord(b[i]))

\* The set of the elements of a list.
Range(s) == {s[i] : i \in 1..Len(s)}

\* list(self.file_aliases.keys()).index(filename), counted from 1.
AliasIndex(file_aliases, filename) ==
    CHOOSE i \in 1..Len(file_aliases) : file_aliases[i][1] = filename

\* A key that does not look at file_aliases.
sort_key_NoAliases(file_aliases, filename) ==
    [first |-> 1, index |-> 0, filename |-> filename]

\* sort_key of load_source_proxies: (0, place in file_aliases) for a file that
\* has an alias, (1, filename) for any other.
sort_key(file_aliases, filename) ==
    IF file_aliases # <<>> /\ DictHas(file_aliases, filename)
    THEN [first |-> 0, index |-> AliasIndex(file_aliases, filename), filename |-> <<>>]
    ELSE [first |-> 1, index |-> 0, filename |-> filename]

\* The order of two keys as Python orders the tuples.
KeyLess(k, l) ==
    \/ k.first < l.first
    \/ k.first = l.first /\ k.index < l.index
    \/ k.first = l.first /\ k.index = l.index /\ StrLess(k.filename, l.filename)

\* sorted(files, key=sort_key): a stable sort, by insertion from the left.
SortedFiles(files, file_aliases) ==
    LET RECURSIVE Insert(_, _)
        Insert(sorted, f) ==
            IF sorted # <<>> /\ KeyLess(sort_key(file_aliases, f),
                                        sort_key(file_aliases, sorted[Len(sorted)]))
            THEN Append(Insert(SubSeq(sorted, 1, Len(sorted) - 1), f), sorted[Len(sorted)])
            ELSE Append(sorted, f)
        RECURSIVE SortFrom(_, _)
        SortFrom(i, sorted) ==
            IF i > Len(files) THEN sorted ELSE SortFrom(i + 1, Insert(sorted, files[i]))
    IN  SortFrom(1, <<>>)

YAML_EXT == <<".", "y", "a", "m", "l">>

YML_EXT == <<".", "y", "m", "l">>

MYCONFIG_YAML == <<"m", "y", "c", "o", "n", "f", "i", "g">> \o YAML_EXT

MYCONFIG_TEMPLATE_YAML ==
    <<"m", "y", "c", "o", "n", "f", "i", "g", "_", "t", "e", "m", "p", "l", "a", "t", "e">> \o YAML_EXT

excludes == {MYCONFIG_YAML, MYCONFIG_TEMPLATE_YAML}

\* os.path.splitext(file_name)[0]: the name up to its last dot, if something
\* other than dots comes before that dot.
Splitext0(file_name) ==
    LET dot == RFind(file_name, ".")
    IN  IF \E i \in 1..(dot - 1) : file_name[i] # "." THEN SubSeq(file_name, 1, dot - 1)
        ELSE file_name

\* any(keyword in name for keyword in keywords)
ContainsAny(name, keywords) == \E k \in 1..Len(keywords) : Contains(name, keywords[k])

\* One element of a proxies list: what kind of object it is, whether it has a
\* name, what kind of object the name is and, for a str, the name.
Proxy(name) == [type |-> "dict", name_type |-> "str", name |-> name, server |-> <<>>]

\* ProxyFilter.is_valid_proxy: an int has no `in`, and `keyword in name` needs
\* a name that is a str.
is_valid_proxy(proxy) ==
    IF proxy.type = "int" THEN [raises |-> TRUE, ret |-> FALSE]
    ELSE IF proxy.name_type = "missing" THEN [raises |-> FALSE, ret |-> FALSE]
    ELSE IF proxy.name_type # "str" THEN [raises |-> TRUE, ret |-> FALSE]
    ELSE [raises |-> FALSE, ret |-> ~ContainsAny(proxy.name, INVALID_KEYWORDS)]

\* The same loop body with the keyword filters run on the renamed name.
transform_source_RenameFirst(proxies, source_name, cache) ==
    LET Kept(p, c, name) ==
            IF /\ p.name_type = "str"
               /\ ~ContainsAny(name, INVALID_KEYWORDS)
               /\ ~ContainsAny(name, ignore_keywords)
            THEN [ret |-> <<[name |-> name, server |-> p.server]>>,
                  cache |-> identify_flag(p.name, p.server, c).cache]
            ELSE [ret |-> <<>>, cache |-> c]
        OfProxy(p, c) == Kept(p, c, new_name(p.name, p.server, source_name, c))
        RECURSIVE TransformFrom(_, _, _)
        Extended(i, done, t) == TransformFrom(i + 1, done \o t.ret, t.cache)
        TransformFrom(i, done, c) ==
            IF i > Len(proxies.items) THEN [raises |-> FALSE, ret |-> done, cache |-> c]
            ELSE Extended(i, done, OfProxy(proxies.items[i], c))
    IN  IF proxies.type = "int" THEN [raises |-> TRUE, ret |-> <<>>, cache |-> cache]
        ELSE IF \E i \in 1..Len(proxies.items) :
                    proxies.items[i].type = "int" \/ proxies.items[i].name_type = "int"
        THEN [raises |-> TRUE, ret |-> <<>>, cache |-> cache]
        ELSE TransformFrom(1, <<>>, cache)

\* The loop body of load_source_proxies for one file whose config has proxies:
\* filter_proxies, the ignore_keywords filter, transform_proxies. It gives the
\* renamed records and the cache, or raises.
transform_source(proxies, source_name, cache) ==
    LET OfProxy(p, c) ==
            IF is_valid_proxy(p).ret /\ ~ContainsAny(p.name, ignore_keywords)
            THEN [ret |-> <<[name |-> new_name(p.name, p.server, source_name, c),
                             server |-> p.server]>>,
                  cache |-> identify_flag(p.name, p.server, c).cache]
            ELSE [ret |-> <<>>, cache |-> c]
        RECURSIVE TransformFrom(_, _, _)
        Extended(i, done, t) == TransformFrom(i + 1, done \o t.ret, t.cache)
        TransformFrom(i, done, c) ==
            IF i > Len(proxies.items) THEN [raises |-> FALSE, ret |-> done, cache |-> c]
            ELSE Extended(i, done, OfProxy(proxies.items[i], c))
    IN  IF proxies.type = "int" THEN [raises |-> TRUE, ret |-> <<>>, cache |-> cache]
        ELSE IF \E i \in 1..Len(proxies.items) : is_valid_proxy(proxies.items[i]).raises
        THEN [raises |-> TRUE, ret |-> <<>>, cache |-> cache]
        ELSE TransformFrom(1, <<>>, cache)

\* A file is read and parsed into a config that has proxies to go through.
HasProxies(content) ==
    /\ content.kind = "config"
    /\ content.proxies.type = "int" \/ content.proxies.items # <<>>

\* ConfigMerger.load_source_proxies over the files os.listdir gave: the files
\* are sorted, and every file that is not excluded, can be read and parsed and
\* has proxies adds its renamed records. An exception of the loop body leaves the
\* function.
load_source_proxies(listing, contents, file_aliases, cache) ==
    LET RECURSIVE LoadFrom(_, _, _, _)
        Extended(files, i, all, t) ==
            IF t.raises THEN [outcome |-> "raises", error |-> "TypeError", cache |-> t.cache]
            ELSE LoadFrom(files, i + 1, all \o t.ret, t.cache)
        OfFile(filename, c) ==
            IF filename \in excludes \/ ~HasProxies(contents[filename])
            THEN [raises |-> FALSE, ret |-> <<>>, cache |-> c]
            ELSE transform_source(contents[filename].proxies,
                                  DictGet(file_aliases, filename, Splitext0(filename)), c)
        LoadFrom(files, i, all, c) ==
            IF i > Len(files) THEN [outcome |-> "returns", value |-> all, cache |-> c]
            ELSE Extended(files, i, all, OfFile(files[i], c))
    IN  LoadFrom(SortedFiles(SelectSeq(listing,
                     LAMBDA f : EndsWith(f, YAML_EXT) \/ EndsWith(f, YML_EXT)), file_aliases),
                 1, <<>>, cache)

\* ------------------------------------------------------------------------
\* One call of load_source_proxies

A_YAML == <<"a">> \o YAML_EXT

A_B_YAML == <<"a", "-", "b">> \o YAML_EXT

B_YML == <<"b">> \o YML_EXT

N_TXT == <<"n", ".", "t", "x", "t">>

\* What os.listdir gives, in the order it gives it.
LISTINGS ==
    { <<B_YML, A_YAML>>,
      <<A_YAML, B_YML, A_B_YAML>>,
      <<MYCONFIG_YAML, N_TXT, A_YAML>> }

\* A name in the blocklist of load_source_proxies only, and one in the blocklist
\* of ProxyFilter only.
GROUP_NOTICE == <<"u7FA4">>

REMAINING == <<"u5269", "u4F59">>

OFFICIAL_SITE == <<"u5B98", "u7F51">>

ProxiesList(items) == [kind |-> "config", proxies |-> [type |-> "list", items |-> items]]

\* What reading and parsing a file gives: an exception, a config without
\* proxies, a config whose proxies is a list of records, and the malformed
\* ones: proxies that is an int, a list that holds an int, a record whose name
\* is an int, a record without a name.
CONTENTS ==
    { [kind |-> "raises"],
      [kind |-> "empty"],
      ProxiesList(<<Proxy(<<"x">>), Proxy(GROUP_NOTICE), Proxy(<<"y">>)>>),
      ProxiesList(<<Proxy(REMAINING \o <<"x">>), Proxy(<<"y">>)>>),
      [kind |-> "config", proxies |-> [type |-> "int"]],
      ProxiesList(<<Proxy(<<"x">>), [type |-> "int"]>>),
      ProxiesList(<<[type |-> "dict", name_type |-> "int", name |-> <<>>, server |-> <<>>]>>),
      ProxiesList(<<[type |-> "dict", name_type |-> "missing", name |-> <<>>, server |-> <<>>],
                    Proxy(<<"y">>)>>) }

\* self.file_aliases, an OrderedDict from file name to alias.
FILE_ALIASES ==
    { <<>>,
      <<<<B_YML, <<"B">>>>>>,
      <<<<B_YML, <<"B">>>>, <<A_YAML, OFFICIAL_SITE>>>>,
      <<<<A_YAML, OFFICIAL_SITE>>, <<B_YML, <<"B">>>>>> }

\* The files of a listing load_source_proxies opens.
Opened(listing) ==
    {f \in Range(listing) : (EndsWith(f, YAML_EXT) \/ EndsWith(f, YML_EXT)) /\ f \notin excludes}

InitAggregate ==
    /\ Imported /\ NoPass
    /\ heap = <<>>
    /\ input \in UNION {{[files |-> l, contents |-> c, file_aliases |-> a] :
                             c \in [Opened(l) -> CONTENTS], a \in FILE_ALIASES} : l \in LISTINGS}
    /\ ret = <<>>
    /\ pc = "call"

\* ConfigMerger.load_source_proxies
LoadSourceProxies ==
    /\ pc = "call"
    /\ \E r \in {load_source_proxies(input.files, input.contents, input.file_aliases,
                                      geoip_cache)} :
           /\ ret' = [op |-> "load_source_proxies"]
                       @@ [k \in DOMAIN r \ {"cache"} |-> r[k]]
           /\ geoip_cache' = r.cache
    /\ pc' = "done"
    /\ UNCHANGED <<GEOIP_AVAILABLE, patterns_added, heap, input>>
    /\ UNCHANGED passVars

NextAggregate == LoadSourceProxies

SpecAggregate == InitAggregate /\ [][NextAggregate]_vars

\* The sources of a call: the listed files load_source_proxies goes through.
Sources == Opened(input.files)

Listed(f) == DictHas(input.file_aliases, f)

\* Source A comes before source B in the declared order.
Before(A, B) ==
    \/ Listed(A) /\ Listed(B)
          /\ AliasIndex(input.file_aliases, A) < AliasIndex(input.file_aliases, B)
    \/ Listed(A) /\ ~Listed(B)
    \/ ~Listed(A) /\ ~Listed(B) /\ StrLess(A, B)

\* The sources in the declared order.
DeclaredOrder ==
    CHOOSE o \in [1..Cardinality(Sources) -> Sources] :
        \A i, j \in 1..Cardinality(Sources) : i < j => Before(o[i], o[j])

SourceName(f) == DictGet(input.file_aliases, f, Splitext0(f))

\* The records one source adds on its own.
Contribution(f) ==
    IF HasProxies(input.contents[f])
    THEN transform_source(input.contents[f].proxies, SourceName(f), geoip_cache).ret
    ELSE <<>>

\* The concatenation of what `part` gives for each file of `order`.
Concatenation(order, part(_)) ==
    LET RECURSIVE ConcatFrom(_)
        ConcatFrom(i) == IF i > Len(order) THEN <<>> ELSE part(order[i]) \o ConcatFrom(i + 1)
    IN  ConcatFrom(1)

\* C13: the records come out source by source in the declared order: a source
\* with a place in file_aliases before one with a later place, a source in
\* file_aliases before one that is not, and among those that are not the
\* lexically smaller file name first; inside a source the records keep their order.
C13_SourcesInDeclaredOrder ==
    pc = "done" /\ ret.outcome = "returns" =>
        ret.value = Concatenation(DeclaredOrder, Contribution)

\* A call where os.listdir gave the sources in another order than the declared
\* one, three sources added records, one of them by its place in file_aliases
\* and one of them more than one record.
C13_Witness ==
    /\ pc = "done" /\ ret.outcome = "returns"
    /\ input.files = <<A_YAML, B_YML, A_B_YAML>>
    /\ Listed(B_YML) /\ ~Listed(A_YAML)
    /\ \A f \in Sources : Contribution(f) # <<>>
    /\ Len(Contribution(A_YAML)) > 1

\* The blocklist: a name is dropped for a keyword of either list.
BLOCKLIST == INVALID_KEYWORDS \o ignore_keywords

\* Every element of every source that has proxies is a record with a str name.
RecordsNamed ==
    \A f \in Sources :
        HasProxies(input.contents[f]) =>
            /\ input.contents[f].proxies.type = "list"
            /\ \A i \in 1..Len(input.contents[f].proxies.items) :
                   /\ input.contents[f].proxies.items[i].type = "dict"
                   /\ input.contents[f].proxies.items[i].name_type = "str"

\* The records of a source whose original name holds no blocklist string,
\* renamed with the source's name.
UnblockedRenamed(f) ==
    IF ~HasProxies(input.contents[f]) THEN <<>>
    ELSE LET kept == SelectSeq(input.contents[f].proxies.items,
                               LAMBDA p : ~ContainsAny(p.name, BLOCKLIST))
         IN  [i \in 1..Len(kept) |->
                 [name |-> new_name(kept[i].name, kept[i].server, SourceName(f), geoip_cache),
                  server |-> kept[i].server]]

\* C14: the filter looks at the name before the rename and at nothing but the
\* blocklist: the output is, source by source, the renamed records whose
\* original name holds no blocklist string, whatever the source's alias holds.
C14_FilterBeforeRename ==
    pc = "done" /\ ret.outcome = "returns" /\ RecordsNamed =>
        ret.value = Concatenation(SortedFiles(SelectSeq(input.files, LAMBDA f : f \in Sources),
                                              input.file_aliases),
                                  UnblockedRenamed)

\* A call where a source whose alias is a blocklist string added a record and
\* lost another one to the blocklist.
C14_Witness ==
    /\ pc = "done" /\ ret.outcome = "returns" /\ RecordsNamed
    /\ A_YAML \in Sources
    /\ SourceName(A_YAML) = OFFICIAL_SITE
    /\ input.contents[A_YAML] = ProxiesList(<<Proxy(<<"x">>), Proxy(GROUP_NOTICE), Proxy(<<"y">>)>>)
    /\ Len(ret.value) >= 2

\* A source is well formed: it cannot be read or parsed, has no proxies, or its
\* proxies is a list of records with a str name or no name.
WellFormed(f) ==
    HasProxies(input.contents[f]) =>
        /\ input.contents[f].proxies.type = "list"
        /\ \A i \in 1..Len(input.contents[f].proxies.items) :
               /\ input.contents[f].proxies.items[i].type = "dict"
               /\ input.contents[f].proxies.items[i].name_type \in {"str", "missing"}

\* C15: a source that cannot be read or parsed, has no proxies or holds
\* malformed entries never aborts the call: load_source_proxies returns, and it
\* returns the records of the other sources in order.
C15_MalformedSourceSkipped ==
    pc = "done" =>
        /\ ret.outcome = "returns"
        /\ ret.value = Concatenation(DeclaredOrder,
                           LAMBDA f : IF WellFormed(f) THEN Contribution(f) ELSE <<>>)

\* ------------------------------------------------------------------------
\* SubscriptionParser.parse_content

\* str.splitlines for text whose only line break is "\n": no line for the empty
\* text, and none after a last line break.
splitlines(text) ==
    LET pieces == Split(text, "\n")
    IN  IF text = <<>> THEN <<>>
        ELSE IF pieces[Len(pieces)] = <<>> THEN SubSeq(pieces, 1, Len(pieces) - 1)
        ELSE pieces

\* The dispatch of parse_content on the scheme of a line, for a line that is
\* no vmess://, no ssr:// and no JSON line.
parse_line(line) ==
    IF StartsWith(line, SS_SCHEME) THEN parse_ss(line)
    ELSE IF StartsWith(line, TROJAN_SCHEME) THEN parse_trojan(line)
    ELSE IF StartsWith(line, VLESS_SCHEME) THEN parse_vless(line)
    ELSE IF StartsWith(line, HYSTERIA2_SCHEME) \/ StartsWith(line, HY2_SCHEME)
    THEN parse_hysteria2(line)
    ELSE ReturnsNone

\* A link-list step that gives up at the first line that does not decode.
parse_link_list_StopAtFailure(decoded) ==
    LET RECURSIVE ParseFrom(_, _, _)
        Taken(lines, i, proxies, p) ==
            IF p.outcome = "record" THEN ParseFrom(lines, i + 1, Append(proxies, p.record))
            ELSE proxies
        ParseFrom(lines, i, proxies) ==
            IF i > Len(lines) THEN proxies
            ELSE Taken(lines, i, proxies, parse_line(Strip(lines[i])))
    IN  ParseFrom(splitlines(decoded), 1, <<>>)

\* Step 3 of parse_content: the records of the lines, in line order; an empty
\* line and a line whose parser gives None add nothing.
parse_link_list(decoded) ==
    LET Parsed(p) == IF p.outcome = "record" THEN <<p.record>> ELSE <<>>
        OfLine(line) == IF line = <<>> THEN <<>> ELSE Parsed(parse_line(line))
        RECURSIVE ParseFrom(_, _, _)
        ParseFrom(lines, i, proxies) ==
            IF i > Len(lines) THEN proxies
            ELSE ParseFrom(lines, i + 1, proxies \o OfLine(Strip(lines[i])))
    IN  ParseFrom(splitlines(decoded), 1, <<>>)

PROXIES_MARKER == <<"p", "r", "o", "x", "i", "e", "s", ":">>

\* The dict {"proxies": proxies} and the dict {}.
Config(proxies) == [kind |-> "dict", has_proxies |-> TRUE, proxies |-> proxies]

EmptyConfig == [kind |-> "dict", has_proxies |-> FALSE, proxies |-> <<>>]

\* A parse_content that does not try the blob as a structured document first.
parse_content_NoYamlStep(content, yaml_content, yaml_decoded) ==
    LET Links(text, proxies) ==
            [step |-> 3, text |-> text,
             value |-> IF proxies # <<>> THEN Config(proxies) ELSE EmptyConfig]
        Step3(text) == Links(text, parse_link_list(text))
        Step2(decoded) ==
            IF Contains(decoded, PROXIES_MARKER) /\ yaml_decoded.kind # "raises"
            THEN [step |-> 2, text |-> <<>>,
                  value |-> IF yaml_decoded.kind = "None" THEN EmptyConfig ELSE yaml_decoded]
            ELSE Step3(IF Contains(decoded, PROXIES_MARKER) THEN content ELSE decoded)
    IN  Step2(decode_base64(content))

\* SubscriptionParser.parse_content. yaml_content and yaml_decoded are what
\* yaml.safe_load gives for the blob and for its base64-decoded text. The result
\* tells which return was reached (step 1: line 367, 2: 376, 3: 414 or 416) and,
\* at step 3, the text whose lines were gone through.
parse_content(content, yaml_content, yaml_decoded) ==
    LET Links(text, proxies) ==
            [step |-> 3, text |-> text,
             value |-> IF proxies # <<>> THEN Config(proxies) ELSE EmptyConfig]
        Step3(text) == Links(text, parse_link_list(text))
        Step2(decoded) ==
            IF Contains(decoded, PROXIES_MARKER) /\ yaml_decoded.kind # "raises"
            THEN [step |-> 2, text |-> <<>>,
                  value |-> IF yaml_decoded.kind = "None" THEN EmptyConfig ELSE yaml_decoded]
            ELSE Step3(IF Contains(decoded, PROXIES_MARKER) THEN content ELSE decoded)
    IN  IF yaml_content.kind = "dict" /\ yaml_content.has_proxies
        THEN [step |-> 1, text |-> <<>>, value |-> yaml_content]
        ELSE Step2(decode_base64(content))

\* ------------------------------------------------------------------------
\* One call of parse_content

\* Lines of a link list: one for each parser parse_content has among those
\* modelled, lines whose parser gives None, lines of kinds parse_content has no
\* branch for, and the empty line.
VLESS_LINE == VLESS_SCHEME \o <<"u", "@", "h", ":", "1", "#", "n">>

TROJAN_LINE == TROJAN_SCHEME \o <<"p", "@", "h", ":", "1", "#", "n">>

SS_LINE == SS_SCHEME \o <<"b", "T", "p", "w", "@", "h", ":", "1", "#", "n">>

HY2_LINE == HY2_SCHEME \o <<"p", "@", "h", ":", "1", "#", "n">>

BAD_PORT_LINE == VLESS_SCHEME \o <<"u", "@", "h", ":", "x">>

ANYTLS_LINE == ANYTLS_SCHEME \o <<"u", "@", "h", ":", "1", "#", "n">>

HYSTERIA_LINE == HYSTERIA_SCHEME \o <<"h", ":", "1", "#", "n">>

SNIFF_LINES ==
    {VLESS_LINE, TROJAN_LINE, SS_LINE, HY2_LINE, BAD_PORT_LINE, ANYTLS_LINE, HYSTERIA_LINE, <<>>}

LINK_LISTS == SNIFF_LINES \cup {a \o <<"\n">> \o b : a, b \in SNIFF_LINES}

\* The base64 text of an ASCII text, without the "=" at the end: what a
\* provider serves.
b64encode(text) ==
    LET byte(j) == IF j <= Len(text) THEN Ord(text[j]) ELSE 0
        sextet(k) ==
            LET g == 3 * ((k - 1) \div 4)
            IN  CASE (k - 1) % 4 = 0 -> byte(g + 1) \div 4
                  [] (k - 1) % 4 = 1 -> (byte(g + 1) % 4) * 16 + byte(g + 2) \div 16
                  [] (k - 1) % 4 = 2 -> (byte(g + 2) % 16) * 4 + byte(g + 3) \div 64
                  [] (k - 1) % 4 = 3 -> byte(g + 3) % 64
    IN  [k \in 1..((4 * Len(text) + 2) \div 3) |-> BASE64_ALPHABET[sextet(k) + 1]]

\* What yaml.safe_load gives: a value that is no dict (a str), an exception,
\* None.
YamlOther == [kind |-> "other"]

YamlRaises == [kind |-> "raises"]

YamlNone == [kind |-> "None"]

\* Structured documents and what yaml.safe_load gives for them.
DOCUMENT ==
    PROXIES_MARKER \o <<"\n", "-", " ", "{", "n", "a", "m", "e", ":", " ", "x", ",", " ",
                        "t", "y", "p", "e", ":", " ", "s", "s", "}">>

DOCUMENT_DATA == Config(<<[name |-> <<"x">>, type |-> "ss"]>>)

BROKEN_DOCUMENT == PROXIES_MARKER \o <<" ", "[">>

COMMENT_DOCUMENT == <<"#">> \o PROXIES_MARKER

OTHER_DOCUMENT == <<"a", ":", " ", "1">>

Blob(content, yaml_content, yaml_decoded) ==
    [content |-> content, yaml_content |-> yaml_content, yaml_decoded |-> yaml_decoded]

BLOBS ==
    {Blob(list, YamlOther, YamlOther) : list \in LINK_LISTS}
    \cup {Blob(b64encode(list), YamlOther, YamlOther) : list \in LINK_LISTS}
    \cup { Blob(DOCUMENT, DOCUMENT_DATA, YamlOther),
           Blob(BROKEN_DOCUMENT, YamlRaises, YamlOther),
           Blob(OTHER_DOCUMENT, EmptyConfig, YamlOther),
           Blob(b64encode(DOCUMENT), YamlOther, DOCUMENT_DATA),
           Blob(b64encode(BROKEN_DOCUMENT), YamlOther, YamlRaises),
           Blob(b64encode(COMMENT_DOCUMENT), YamlOther, YamlNone) }

InitSniff ==
    /\ Imported /\ NoPass
    /\ heap = <<>>
    /\ input \in BLOBS
    /\ ret = <<>>
    /\ pc = "call"

\* SubscriptionParser.parse_content
ParseContent ==
    /\ pc = "call"
    /\ ret' = [op |-> "parse_content"]
                  @@ parse_content(input.content, input.yaml_content, input.yaml_decoded)
    /\ pc' = "done"
    /\ UNCHANGED <<heap, input>>
    /\ UNCHANGED geoVars
    /\ UNCHANGED passVars

NextSniff == ParseContent

SpecSniff == InitSniff /\ [][NextSniff]_vars

\* base64 decoding of the blob succeeds: b64decode and the UTF-8 decoding of
\* its bytes both go through, and something was decoded.
Base64Decodes ==
    LET stripped == Replace(Replace(Strip(input.content), <<"-">>, <<"+">>), <<"_">>, <<"/">>)
        padding == IF Len(stripped) % 4 # 0 THEN 4 - (Len(stripped) % 4) ELSE 0
        decoded == b64decode(stripped, padding)
    IN  ~decoded.raises /\ decoded.bytes # <<>> /\ ~decode_utf8(decoded.bytes).raises

\* The blob is a structured document with a proxies collection.
Structured == input.yaml_content.kind = "dict" /\ input.yaml_content.has_proxies

\* The base64-decoded blob holds the marker.
Marker == Contains(decode_base64(input.content), PROXIES_MARKER)

\* The result of the link-list step on a text.
LinkListResult(text) ==
    IF parse_link_list(text) # <<>> THEN Config(parse_link_list(text)) ELSE EmptyConfig

\* C16: a blob that is no structured document and no valid base64 is itself
\* the link list: the decodable lines of a plain-text blob give their records.
C16_PlainTextBlobIsTheLinkList ==
    pc = "done" /\ ~Structured /\ ~Base64Decodes =>
        /\ ret.step = 3
        /\ ret.value = LinkListResult(input.content)

\* C17 as stated: a structured blob is returned as it is at step 1; otherwise
\* a marker in the decoded blob gives the decoded document at step 2; the
\* link-list step runs only when neither holds.
C17_ThreeStepsInOrder ==
    pc = "done" =>
        /\ Structured => ret.step = 1 /\ ret.value = input.yaml_content
        /\ ~Structured /\ Marker => ret.step = 2
        /\ ret.step = 3 => ~Structured /\ ~Marker

\* C17, amended: the decoded document is returned at step 2 if it parses; if
\* it does not parse, the link-list step runs on the blob itself.
C17_ThreeStepsInOrderIfDecodedParses ==
    pc = "done" =>
        LET parses == input.yaml_decoded.kind # "raises"
        IN  /\ Structured => ret.step = 1 /\ ret.value = input.yaml_content
            /\ ~Structured /\ Marker /\ parses =>
                   /\ ret.step = 2
                   /\ ret.value = IF input.yaml_decoded.kind = "None" THEN EmptyConfig
                                   ELSE input.yaml_decoded
            /\ ~Structured /\ Marker /\ ~parses =>
                   ret.step = 3 /\ ret.text = input.content
            /\ ret.step = 3 => ~Structured /\ (~Marker \/ ~parses)

\* A blob that is the base64 text of a structured document: its proxies came
\* back at step 2.
C17_Witness ==
    /\ pc = "done" /\ ~Structured /\ Marker
    /\ ret.step = 2
    /\ ret.value = DOCUMENT_DATA

\* A line of the list decodes.
Decodes(line) == Strip(line) # <<>> /\ parse_line(Strip(line)).outcome = "record"

\* C18: the link-list step gives the records of the lines that decode, in line
\* order, whatever the other lines are, and no proxies if and only if no line
\* decodes.
C18_FailingLineDropped ==
    pc = "done" /\ ret.step = 3 =>
        LET decoding == SelectSeq(splitlines(ret.text), Decodes)
        IN  /\ ret.value.proxies = [i \in 1..Len(decoding) |-> parse_line(Strip(decoding[i])).record]
            /\ ret.value.has_proxies <=> decoding # <<>>

\* A list whose first line does not decode and whose second line does: the
\* result is the record of the second.
C18_Witness ==
    /\ pc = "done" /\ ret.step = 3
    /\ Len(splitlines(ret.text)) = 2
    /\ splitlines(ret.text)[1] # <<>>
    /\ ~Decodes(splitlines(ret.text)[1])
    /\ Decodes(splitlines(ret.text)[2])
    /\ Len(ret.value.proxies) = 1

\* C19: every line of the list that parse_node_link decodes adds the record
\* parse_node_link gives for it.
C19_EveryKindDispatched ==
    pc = "done" /\ ret.step = 3 =>
        \A line \in Range(splitlines(ret.text)) :
            ForParseNodeLink(Strip(line)) /\ parse_node_link(Strip(line)).outcome = "record" =>
                parse_node_link(Strip(line)).record \in Range(ret.value.proxies)

\* ------------------------------------------------------------------------
\* The flag of the renamed name and the bucket

\* C20: the flag rename put at the start of a name decides the bucket: a record
\* whose renamed name starts with the flag of a recognized country is in the
\* bucket whose label starts with that flag and in no other bucket.
C20_RenamedFlagDecidesBucket ==
    pc = "done" =>
        \A i \in 1..Len(all_proxies) :
            FlagOf(all_proxies[i].name) \in RECOGNIZED_FLAGS =>
                \A k \in 1..Len(country_groups) :
                    all_proxies[i].name \in Range(country_groups[k][2])
                        <=> FlagOf(country_groups[k][1]) = FlagOf(all_proxies[i].name)

\* ------------------------------------------------------------------------
\* Aggregation passes of one process, one after the other

MaxPasses == 2

MaxPassRecords == 2

\* The process before its first pass: input is the snapshot of sources the
\* running pass has read so far, ret the number of passes begun.
InitHistory ==
    /\ Imported /\ NoPass
    /\ heap = <<>>
    /\ input = <<>>
    /\ ret = 1
    /\ pc = "load"

\* load_source_proxies, one record, the record read being kept in the snapshot.
LoadSnapshotRecord(name, server, source_name) ==
    /\ pc = "load"
    /\ Len(all_proxies) < MaxPassRecords
    /\ all_proxies' = Append(all_proxies,
           [name |-> new_name(name, server, source_name, geoip_cache), server |-> server])
    /\ geoip_cache' = identify_flag(name, server, geoip_cache).cache
    /\ input' = Append(input, [name |-> name, server |-> server, source_name |-> source_name])
    /\ UNCHANGED <<GEOIP_AVAILABLE, patterns_added, country_groups, proxy_groups, heap, ret, pc>>

\* The next request of the process builds a ConfigMerger and calls
\* merge_and_generate: the lists of the pass are new, the class attributes
\* CountryGrouper.COUNTRY_PATTERNS and GeoIPLookup._geoip_cache are those the
\* earlier passes left.
NextRequest ==
    /\ pc = "done"
    /\ ret < MaxPasses
    /\ ret' = ret + 1
    /\ all_proxies' = <<>>
    /\ country_groups' = <<>>
    /\ proxy_groups' = <<>>
    /\ input' = <<>>
    /\ pc' = "load"
    /\ UNCHANGED <<heap>>
    /\ UNCHANGED geoVars

NextHistory ==
    \/ \E name \in RAW_NAMES, server \in SERVERS, source_name \in SOURCE_NAMES :
           LoadSnapshotRecord(name, server, source_name)
    \/ MergeAndGenerate
    \/ NextRequest

SpecHistory == InitHistory /\ [][NextHistory]_vars

\* The records a first pass of the process makes of a snapshot: the renaming
\* with an empty geolocation cache.
RECURSIVE RenamedAlone(_, _, _)
RenamedAlone(snapshot, i, cache) ==
    IF i > Len(snapshot) THEN [ret |-> <<>>, cache |-> cache]
    ELSE LET Rest(r) == [ret |-> <<[name |-> new_name(snapshot[i].name, snapshot[i].server,
                                                     snapshot[i].source_name, cache),
                                    server |-> snapshot[i].server]>> \o r.ret,
                         cache |-> r.cache]
         IN  Rest(RenamedAlone(snapshot, i + 1,
                     identify_flag(snapshot[i].name, snapshot[i].server, cache).cache))

\* What merge_and_generate gives for a snapshot in a process that made no pass
\* before.
PassAlone(snapshot) ==
    LET Grouped(proxies, g) ==
            [proxies |-> proxies, country_groups |-> g.ret,
             proxy_groups |-> generate_groups(proxies, g.ret)]
        Renamed(r) ==
            IF r.ret = <<>> THEN [proxies |-> <<>>, country_groups |-> <<>>, proxy_groups |-> <<>>]
            ELSE Grouped(r.ret, group_by_country(r.ret, COUNTRY_PATTERNS_INITIAL, r.cache))
    IN  Renamed(RenamedAlone(snapshot, 1, EmptyDict))

\* C21: a pass gives the record names, buckets and groups that the first pass
\* of a process gives for the same snapshot of sources, whatever passes ran
\* before it, and a pass begins with no pattern-table entry and no geolocation
\* cache entry that an earlier pass made.
C21_PassIndependentOfHistory ==
    /\ pc = "done" =>
           \E alone \in {PassAlone(input)} :
               /\ all_proxies = alone.proxies
               /\ country_groups = alone.country_groups
               /\ proxy_groups = alone.proxy_groups
    /\ pc = "load" /\ all_proxies = <<>> => patterns_added = <<>> /\ geoip_cache = EmptyDict

\* ------------------------------------------------------------------------
\* Two request threads in CountryGrouper.identify_country

\* The records the two passes classify, as their sources hold them.
THREAD_RECORDS ==
    { [name |-> <<"x">>, server |-> <<"b">>],
      [name |-> <<"u1F1E8", "u1F1ED", "x">>, server |-> <<"a">>],
      [name |-> <<"U", "S">>, server |-> <<"a">>] }

THREADS == {1, 2}

\* A thread that enters identify_country for a record its pass has renamed. `at`
\* is the place of the thread: the loop of priority 1, 2 or 3, the GeoIP step
\* ("p4"), the test and the store of lines 904-909 ("test", "store"), or how it
\* left. `used` is the size the dict view iterator of the running loop took
\* when it was made (0: not made yet), i the entry it gives next.
Enters(record) ==
    [proxy_name |-> new_name(record.name, record.server, <<"P">>, EmptyDict),
     proxy_server |-> record.server,
     at |-> "p1", used |-> 0, i |-> 1, ret |-> <<>>, country_group |-> <<>>]

InitThreads ==
    /\ Imported /\ NoPass
    /\ input \in [THREADS -> THREAD_RECORDS]
    /\ heap = [t \in THREADS |-> Enters(input[t])]
    /\ ret = <<>>
    /\ pc = "threads"

\* The test one loop of identify_country makes on one entry of the table.
EntryMatches(at, patterns, proxy_name) ==
    CASE at = "p1" -> StartsWith(proxy_name, patterns[1])
      [] at = "p2" -> Contains(proxy_name, patterns[1])
      [] at = "p3" -> \E j \in 2..Len(patterns) :
                          CountryPatternMatches(patterns[j], proxy_name, Upper(proxy_name))

AfterLoop(at) == CASE at = "p1" -> "p2" [] at = "p2" -> "p3" [] at = "p3" -> "p4"

ThreadUnchanged ==
    /\ UNCHANGED <<GEOIP_AVAILABLE, input, ret, pc>>
    /\ UNCHANGED passVars

\* for country, patterns in CountryGrouper.COUNTRY_PATTERNS.items(): the
\* iterator is made.
IterLoop(t) ==
    /\ pc = "threads"
    /\ heap[t].at \in {"p1", "p2", "p3"}
    /\ heap[t].used = 0
    /\ heap' = [heap EXCEPT ![t].used = Len(COUNTRY_PATTERNS), ![t].i = 1]
    /\ UNCHANGED <<patterns_added, geoip_cache>>
    /\ ThreadUnchanged

\* One next() of the iterator and the loop body: a dict whose size is not the
\* size the iterator took raises RuntimeError, an exhausted iterator ends the
\* loop, a matching entry returns its label.
NextEntry(t) ==
    /\ pc = "threads"
    /\ heap[t].at \in {"p1", "p2", "p3"}
    /\ heap[t].used # 0
    /\ \E th \in {heap[t]} :
           heap' = [heap EXCEPT ![t] =
               IF Len(COUNTRY_PATTERNS) # th.used THEN [th EXCEPT !.at = "raised"]
               ELSE IF th.i > Len(COUNTRY_PATTERNS)
               THEN [th EXCEPT !.at = AfterLoop(th.at), !.used = 0]
               ELSE IF EntryMatches(th.at, COUNTRY_PATTERNS[th.i][2], th.proxy_name)
               THEN [th EXCEPT !.at = "returned", !.ret = COUNTRY_PATTERNS[th.i][1]]
               ELSE [th EXCEPT !.i = th.i + 1]]
    /\ UNCHANGED <<patterns_added, geoip_cache>>
    /\ ThreadUnchanged

\* Priority 4 up to the answer of geoip.get_country_group.
GeoIPStep(t) ==
    /\ pc = "threads"
    /\ heap[t].at = "p4"
    /\ IF heap[t].proxy_server # <<>> /\ GEOIP_AVAILABLE
       THEN /\ \E country_group \in {get_country_group(geoip_cache, heap[t].proxy_server)} :
                   heap' = [heap EXCEPT ![t] =
                       IF country_group # <<>>
                       THEN [heap[t] EXCEPT !.at = "test", !.country_group = country_group]
                       ELSE [heap[t] EXCEPT !.at = "returned", !.ret = UNKNOWN_GROUP]]
            /\ geoip_cache' = cache_after_lookup(geoip_cache, heap[t].proxy_server)
       ELSE /\ heap' = [heap EXCEPT ![t].at = "returned", ![t].ret = UNKNOWN_GROUP]
            /\ UNCHANGED geoip_cache
    /\ UNCHANGED patterns_added
    /\ ThreadUnchanged

\* if country_group not in CountryGrouper.COUNTRY_PATTERNS
TestLabel(t) ==
    /\ pc = "threads"
    /\ heap[t].at = "test"
    /\ \E th \in {heap[t]} :
           heap' = [heap EXCEPT ![t] =
               IF ~DictHas(COUNTRY_PATTERNS, th.country_group)
                  /\ Len(SplitFirstSpace(th.country_group)) = 2
               THEN [th EXCEPT !.at = "store"]
               ELSE [th EXCEPT !.at = "returned", !.ret = th.country_group]]
    /\ UNCHANGED <<patterns_added, geoip_cache>>
    /\ ThreadUnchanged

\* CountryGrouper.COUNTRY_PATTERNS[country_group] = [flag, name]: a key the
\* dict holds by now keeps its place, a new key goes to the end.
StoreLabel(t) ==
    /\ pc = "threads"
    /\ heap[t].at = "store"
    /\ patterns_added' =
           IF DictHas(COUNTRY_PATTERNS, heap[t].country_group) THEN patterns_added
           ELSE Append(patterns_added,
                       <<heap[t].country_group, SplitFirstSpace(heap[t].country_group)>>)
    /\ heap' = [heap EXCEPT ![t].at = "returned", ![t].ret = heap[t].country_group]
    /\ UNCHANGED geoip_cache
    /\ ThreadUnchanged

NextThreads ==
    \E t \in THREADS :
        \/ IterLoop(t)
        \/ NextEntry(t)
        \/ GeoIPStep(t)
        \/ TestLabel(t)
        \/ StoreLabel(t)

SpecThreads == InitThreads /\ [][NextThreads]_vars

\* What identify_country gives the thread's record in a pass that runs alone.
Alone(thread) ==
    identify_country(thread.proxy_name, thread.proxy_server, COUNTRY_PATTERNS_INITIAL,
                     EmptyDict).ret

\* C22: under every interleaving of two passes neither pass ends in an error,
\* and each record is given the label its pass gives it when run alone.
C22_ConcurrentPassesDoNotInterfere ==
    pc = "threads" =>
        \A t \in THREADS :
            /\ heap[t].at # "raised"
            /\ heap[t].at = "returned" => heap[t].ret = Alone(heap[t])

\* ------------------------------------------------------------------------
\* server.py: GET /sub
\*
\* config.json is a record: sub_token (<<>> when auth has none, else <<n>>),
\* users, subscriptions, custom_nodes and source_order as lists. A token of a
\* request is <<n>>, or <<>> when the request has none. The directory of
\* sources is a listing and what reading and parsing each file gives.

CUSTOM_NODES == <<"c", "u", "s", "t", "o", "m", "_", "n", "o", "d", "e", "s">>

CUSTOM_NODES_YAML == CUSTOM_NODES \o YAML_EXT

CUSTOM == <<"C", "u", "s", "t", "o", "m">>

STAR == << <<"*">> >>

\* The token check of get_merged_subscription: the status it raises, or 200
\* with the user the token belongs to (<<>> for the admin token). An
\* expire_time is <<n>>, or <<>> for None, which makes the comparison raise
\* TypeError: the server answers 500.
authorize(config, token, now) ==
    LET Found(matching) ==
            IF matching = <<>> THEN [status |-> 401, user |-> <<>>]
            ELSE IF ~matching[1].enabled THEN [status |-> 403, user |-> <<>>]
            ELSE IF matching[1].expire_time = <<>> THEN [status |-> 500, user |-> <<>>]
            ELSE IF matching[1].expire_time[1] > 0 /\ matching[1].expire_time[1] < now
            THEN [status |-> 403, user |-> <<>>]
            ELSE [status |-> 200, user |-> <<matching[1]>>]
    IN  IF config.sub_token # <<>> /\ token = config.sub_token
        THEN [status |-> 200, user |-> <<>>]
        ELSE Found(SelectSeq(config.users, LAMBDA user : user.token = token))

\* enabled_subs, for the admin (user = <<>>) or filtered by the allocations.
enabled_subs_of(config, user) ==
    SelectSeq(config.subscriptions,
              LAMBDA s : /\ s.enabled
                         /\ user # <<>> =>
                                s.id # CUSTOM_NODES /\ DictHas(user[1].allocations, s.id))

\* custom_nodes, for the admin or filtered by the allocations.
custom_nodes_of(config, user) ==
    IF user = <<>> THEN config.custom_nodes
    ELSE IF ~DictHas(user[1].allocations, CUSTOM_NODES) THEN <<>>
    ELSE IF DictGet(user[1].allocations, CUSTOM_NODES, <<>>) = STAR THEN config.custom_nodes
    ELSE SelectSeq(config.custom_nodes,
                   LAMBDA n : \E k \in 1..Len(DictGet(user[1].allocations, CUSTOM_NODES, <<>>)) :
                                  DictGet(user[1].allocations, CUSTOM_NODES, <<>>)[k] = n.name)

\* file_aliases as get_merged_subscription builds it (server.py:1825-1854).
file_aliases_of(config_order, enabled_subs, custom_nodes) ==
    LET RECURSIVE Remaining(_, _)
        Remaining(i, file_aliases) ==
            IF i > Len(enabled_subs) THEN file_aliases
            ELSE Remaining(i + 1,
                     IF DictHas(file_aliases, enabled_subs[i].id \o YAML_EXT) THEN file_aliases
                     ELSE DictSet(file_aliases, enabled_subs[i].id \o YAML_EXT,
                                  enabled_subs[i].name))
        OfSource(source_id, file_aliases) ==
            IF source_id = CUSTOM_NODES /\ custom_nodes # <<>>
            THEN DictSet(file_aliases, CUSTOM_NODES_YAML, CUSTOM)
            ELSE IF \E k \in 1..Len(enabled_subs) : enabled_subs[k].id = source_id
            THEN DictSet(file_aliases, source_id \o YAML_EXT,
                         enabled_subs[Min({k \in 1..Len(enabled_subs) :
                                               enabled_subs[k].id = source_id})].name)
            ELSE file_aliases
        RECURSIVE InOrder(_, _)
        InOrder(i, file_aliases) ==
            IF i > Len(config_order) THEN Remaining(1, file_aliases)
            ELSE InOrder(i + 1, OfSource(config_order[i], file_aliases))
    IN  InOrder(1, IF custom_nodes # <<>>
                      /\ ~\E k \in 1..Len(config_order) : config_order[k] = CUSTOM_NODES
                   THEN <<<<CUSTOM_NODES_YAML, CUSTOM>>>> ELSE <<>>)

\* The test of lines 1871-1926: whether a record of the merged list is kept for
\* a user with these allocations.
included(proxy_name, user_allocations, config) ==
    \/ \E a \in 1..Len(user_allocations) :
           /\ user_allocations[a][1] # CUSTOM_NODES
           /\ \E k \in 1..Len(config.subscriptions) :
                  /\ config.subscriptions[k].id = user_allocations[a][1]
                  /\ \A j \in 1..(k - 1) : config.subscriptions[j].id # user_allocations[a][1]
                  /\ config.subscriptions[k].name # <<>>
                  /\ Contains(proxy_name, config.subscriptions[k].name)
           /\ \/ user_allocations[a][2] = STAR
              \/ \E n \in 1..Len(user_allocations[a][2]) :
                     \/ /\ remove_flags(user_allocations[a][2][n]) # <<>>
                        /\ Contains(proxy_name, remove_flags(user_allocations[a][2][n]))
                     \/ Contains(proxy_name, user_allocations[a][2][n])
    \/ /\ DictHas(user_allocations, CUSTOM_NODES)
       /\ IF DictGet(user_allocations, CUSTOM_NODES, <<>>) = STAR
          THEN \E k \in 1..Len(config.custom_nodes) :
                   Contains(proxy_name, config.custom_nodes[k].name)
          ELSE \E n \in 1..Len(DictGet(user_allocations, CUSTOM_NODES, <<>>)) :
                   Contains(proxy_name, DictGet(user_allocations, CUSTOM_NODES, <<>>)[n])

\* ------------------------------------------------------------------------
\* /sub over a configuration whose subscriptions are toggled and whose user is
\* given allocations

C_YAML == <<"c">> \o YAML_EXT

\* Two subscriptions, "a" named P and "c" named Q, and the custom nodes. The
\* file of "c" holds a record whose name has the name of subscription "a" in
\* it.
SUB_DIR(custom_nodes) ==
    [files |-> <<C_YAML, A_YAML, CUSTOM_NODES_YAML>>,
     contents |-> (A_YAML :> ProxiesList(<<Proxy(<<"x">>)>>))
                  @@ (C_YAML :> ProxiesList(<<Proxy(<<"y">>), Proxy(<<"P", "y">>)>>))
                  @@ (CUSTOM_NODES_YAML :>
                          ProxiesList([k \in 1..Len(custom_nodes) |-> Proxy(custom_nodes[k].name)]))]

\* Allocations update_user_allocations is given: none, whole sources, listed
\* nodes, and a listed node "w" that no source holds (any more).
ALLOCATIONS ==
    { <<>>,
      << <<<<"a">>, STAR>> >>,
      << <<<<"a">>, << <<"x">> >> >> >>,
      << <<<<"a">>, << <<"w">> >> >> >>,
      << <<<<"c">>, STAR>> >>,
      << <<CUSTOM_NODES, STAR>> >>,
      << <<CUSTOM_NODES, << <<"z">> >> >> >>,
      << <<<<"a">>, STAR>>, <<CUSTOM_NODES, << <<"z">> >> >> >> }

ADMIN_TOKEN == <<1>>

USER_TOKEN == <<2>>

\* Tokens of requests: the admin's, the user's, one nobody was given, none.
REQUEST_TOKENS == {ADMIN_TOKEN, USER_TOKEN, <<9>>, <<>>}

User(token, enabled, expire_time, allocations) ==
    [id |-> <<"u">>, token |-> token, enabled |-> enabled, expire_time |-> expire_time,
     allocations |-> allocations]

\* config.json after setup, two add_subscription, add_custom_node or none, and
\* create_user.
InitSub ==
    /\ Imported /\ NoPass
    /\ \E custom_nodes \in {<<>>, <<[name |-> <<"z">>]>>} :
           /\ heap = [sub_token |-> ADMIN_TOKEN,
                      users |-> <<User(USER_TOKEN, TRUE, <<0>>, <<>>)>>,
                      subscriptions |-> <<[id |-> <<"a">>, name |-> <<"P">>, enabled |-> TRUE],
                                          [id |-> <<"c">>, name |-> <<"Q">>, enabled |-> TRUE]>>,
                      custom_nodes |-> custom_nodes,
                      source_order |-> <<>>]
           /\ input = [dir |-> SUB_DIR(custom_nodes), time |-> 1, issued |-> 2]
    /\ ret = <<>>
    /\ pc = "serve"

ServerUnchanged ==
    /\ UNCHANGED <<input, pc>>
    /\ UNCHANGED geoVars
    /\ UNCHANGED passVars

\* PUT /api/subscriptions/{sub_id}/toggle
ToggleSubscription(sub_id) ==
    /\ pc = "serve"
    /\ heap' = [heap EXCEPT !.subscriptions =
           [k \in 1..Len(@) |->
               IF @[k].id = sub_id /\ \A j \in 1..(k - 1) : @[j].id # sub_id
               THEN [@[k] EXCEPT !.enabled = ~@] ELSE @[k]]]
    /\ ret' = [op |-> "toggle_subscription", status |-> 200]
    /\ ServerUnchanged

\* PUT /api/users/{user_id}/allocations
UpdateUserAllocations(user_id, subscriptions) ==
    /\ pc = "serve"
    /\ IF \E k \in 1..Len(heap.users) : heap.users[k].id = user_id
       THEN /\ heap' = [heap EXCEPT !.users =
                   [k \in 1..Len(@) |->
                       IF @[k].id = user_id /\ \A j \in 1..(k - 1) : @[j].id # user_id
                       THEN [@[k] EXCEPT !.allocations = subscriptions] ELSE @[k]]]
            /\ ret' = [op |-> "update_user_allocations", status |-> 200]
       ELSE /\ UNCHANGED heap
            /\ ret' = [op |-> "update_user_allocations", status |-> 404]
    /\ ServerUnchanged

\* What a call of get_merged_subscription leaves: the response (proxies are
\* the records of the merged list, info the subscriptions a
\* traffic-information node is put in front of them for, file_aliases what the
\* merger was given, now what time.time() gave), COUNTRY_PATTERNS and the
\* geolocation cache.
Responds(token, status, proxies, groups, info, file_aliases, patterns, cache) ==
    /\ ret' = [op |-> "get_merged_subscription", token |-> token, status |-> status,
               proxies |-> proxies, proxy_groups |-> groups, info |-> info,
               file_aliases |-> file_aliases, now |-> input.time]
    /\ patterns_added' = Added(patterns)
    /\ geoip_cache' = cache

\* GET /sub: the token check, the sources of the request (404 when it has
\* none), merge_and_generate over the directory under the file_aliases of the
\* request (an exception is answered 500), and for a user the filter of the
\* allocations and the groups generated again from what it keeps.
GetMergedSubscription(token) ==
    /\ pc = "serve"
    /\ \E a \in {authorize(heap, token, input.time)} :
       \E enabled_subs \in {enabled_subs_of(heap, a.user)},
          custom_nodes \in {custom_nodes_of(heap, a.user)} :
       \E file_aliases \in {file_aliases_of(heap.source_order, enabled_subs, custom_nodes)},
          info \in {[k \in 1..Len(enabled_subs) |-> enabled_subs[k].name]} :
           IF a.status # 200
           THEN Responds(token, a.status, <<>>, <<>>, <<>>, <<>>, COUNTRY_PATTERNS, geoip_cache)
           ELSE IF enabled_subs = <<>> /\ custom_nodes = <<>>
           THEN Responds(token, 404, <<>>, <<>>, <<>>, <<>>, COUNTRY_PATTERNS, geoip_cache)
           ELSE \E l \in {load_source_proxies(input.dir.files, input.dir.contents,
                                              file_aliases, geoip_cache)} :
                IF l.outcome = "raises"
                THEN Responds(token, 500, <<>>, <<>>, <<>>, file_aliases, COUNTRY_PATTERNS,
                              l.cache)
                ELSE \E g \in {IF l.value = <<>>
                               THEN [ret |-> EmptyDict, patterns |-> COUNTRY_PATTERNS,
                                     cache |-> l.cache]
                               ELSE group_by_country(l.value, COUNTRY_PATTERNS, l.cache)} :
                     IF a.user = <<>>
                     THEN Responds(token, 200, l.value,
                                   IF l.value = <<>> THEN <<>>
                                   ELSE generate_groups(l.value, g.ret),
                                   info, file_aliases, g.patterns, g.cache)
                     ELSE \E filtered_proxies \in
                              {SelectSeq(l.value,
                                   LAMBDA proxy :
                                       included(proxy.name, a.user[1].allocations, heap))} :
                          \E regrouped \in {group_by_country(filtered_proxies, g.patterns,
                                                             g.cache)} :
                              Responds(token, 200, filtered_proxies,
                                       generate_groups(filtered_proxies, regrouped.ret),
                                       info, file_aliases, regrouped.patterns, regrouped.cache)
    /\ UNCHANGED <<GEOIP_AVAILABLE, heap, input, pc>>
    /\ UNCHANGED passVars

NextSub ==
    \/ \E sub_id \in {<<"a">>, <<"c">>} : ToggleSubscription(sub_id)
    \/ \E user_id \in {<<"u">>, <<"v">>}, subscriptions \in ALLOCATIONS :
           UpdateUserAllocations(user_id, subscriptions)
    \/ \E token \in REQUEST_TOKENS : GetMergedSubscription(token)

SpecSub == InitSub /\ [][NextSub]_vars

\* The names load_source_proxies gives the records of one subscription's file,
\* under the file_aliases the merger of a response was given.
NamesOfFile(sub_id, dir, file_aliases) ==
    LET Names(l) == IF l.outcome = "raises" THEN {}
                    ELSE {l.value[k].name : k \in 1..Len(l.value)}
    IN  Names(load_source_proxies(<<sub_id \o YAML_EXT>>, dir.contents, file_aliases, EmptyDict))

Served == ret # <<>> /\ ret.op = "get_merged_subscription" /\ ret.status = 200

\* The subscriptions of the configuration that are disabled and whose file
\* has records.
DisabledWithRecords ==
    {k \in 1..Len(heap.subscriptions) :
        /\ ~heap.subscriptions[k].enabled
        /\ NamesOfFile(heap.subscriptions[k].id, input.dir, <<>>) # {}}

\* C23: a disabled subscription contributes no record to the merged output of
\* /sub: while a subscription is toggled off and its file still exists, no
\* record loaded from that file is among the proxies of a response to an admin
\* or user token, and none is a member of a group of the response.
C23_DisabledSubscriptionContributesNothing ==
    Served =>
        \A k \in DisabledWithRecords :
            \A name \in NamesOfFile(heap.subscriptions[k].id, input.dir, ret.file_aliases) :
                /\ \A i \in 1..Len(ret.proxies) : ret.proxies[i].name # name
                /\ \A g \in 1..Len(ret.proxy_groups) :
                       \A m \in 1..Len(ret.proxy_groups[g].proxies) :
                           ret.proxy_groups[g].proxies[m] # name

\* The names of the records a user with these allocations was allocated: the
\* records of the file of every source that is a key of the allocations, all
\* of them under ["*"], else those whose name in the file or in the merged
\* list is one of the listed names.
AllocatedNames(user_allocations, dir, file_aliases) ==
    LET OnlyListed(file, nodes) ==
            [dir EXCEPT !.contents[file] =
                ProxiesList(SelectSeq(@.proxies.items,
                    LAMBDA p : \E n \in 1..Len(nodes) : nodes[n] = p.name))]
        OfSource(source_id, nodes) ==
            IF nodes = STAR THEN NamesOfFile(source_id, dir, file_aliases)
            ELSE NamesOfFile(source_id, OnlyListed(source_id \o YAML_EXT, nodes), file_aliases)
                 \cup {name \in NamesOfFile(source_id, dir, file_aliases) :
                          \E n \in 1..Len(nodes) : nodes[n] = name}
    IN  UNION {OfSource(user_allocations[a][1], user_allocations[a][2]) :
                  a \in 1..Len(user_allocations)}

\* C24: a user token only receives what was allocated to that user: every
\* record of a response to the user's token is a record of a source that is a
\* key of the user's allocations, and one of the listed nodes when the
\* allocation lists names.
C24_UserReceivesOnlyAllocated ==
    Served =>
        \A u \in 1..Len(heap.users) :
            heap.users[u].token = ret.token =>
                \A i \in 1..Len(ret.proxies) :
                    ret.proxies[i].name \in
                        AllocatedNames(heap.users[u].allocations, input.dir, ret.file_aliases)

\* The group of a group graph that has this name, as a set (empty when the
\* graph has none).
GroupsNamed(groups, name) == {groups[g] : g \in {g \in 1..Len(groups) : groups[g].name = name}}

\* A group graph is either absent or has at least one member in its
\* auto-select and in its fallback group.
GraphHasMembers(groups) ==
    groups # <<>> =>
        /\ \A group \in GroupsNamed(groups, AUTO_SELECT) : group.proxies # <<>>
        /\ \A group \in GroupsNamed(groups, FALLBACK) : group.proxies # <<>>

\* C28: whenever /sub emits a group graph, for the admin or on the per-user
\* path that regenerates the groups from the filtered list, the auto-select
\* url-test group and the fallback group each have at least one member.
C28_EmittedGroupsHaveMembers ==
    Served => GraphHasMembers(ret.proxy_groups)

\* ------------------------------------------------------------------------
\* /sub over the tokens of a configuration: the admin token and the token of
\* one user are regenerated, the user is updated, time passes

MaxTokens == 3

MaxTime == 3

\* expire_time of CreateUser and UpdateUser is Optional[int] and is stored as
\* it comes: None (only create_user stores it), 0, a time before or after now.
EXPIRE_TIMES == {<<0>>, <<-1>>, <<2>>}

\* One subscription, whose file holds one record.
TOKEN_DIR ==
    [files |-> <<A_YAML>>, contents |-> (A_YAML :> ProxiesList(<<Proxy(<<"x">>)>>))]

\* config.json after setup, add_subscription, create_user with expire_time 0
\* or null, and update_user_allocations; generate_token has issued 2 tokens.
InitToken ==
    /\ Imported /\ NoPass
    /\ \E expire_time \in {<<>>, <<0>>} :
           heap = [sub_token |-> ADMIN_TOKEN,
                   users |-> <<User(USER_TOKEN, TRUE, expire_time, << <<<<"a">>, STAR>> >>)>>,
                   subscriptions |-> <<[id |-> <<"a">>, name |-> <<"P">>, enabled |-> TRUE]>>,
                   custom_nodes |-> <<>>,
                   source_order |-> <<>>]
    /\ input = [dir |-> TOKEN_DIR, time |-> 1, issued |-> 2]
    /\ ret = <<>>
    /\ pc = "serve"

\* POST /api/auth/regenerate-token; generate_token gives a token never given
\* before.
RegenerateSubToken ==
    /\ pc = "serve"
    /\ input.issued < MaxTokens
    /\ heap' = [heap EXCEPT !.sub_token = <<input.issued + 1>>]
    /\ input' = [input EXCEPT !.issued = @ + 1]
    /\ ret' = [op |-> "regenerate_sub_token", status |-> 200, old |-> heap.sub_token]
    /\ UNCHANGED pc
    /\ UNCHANGED geoVars
    /\ UNCHANGED passVars

\* POST /api/users/{user_id}/regenerate-token
RegenerateUserToken(user_id) ==
    /\ pc = "serve"
    /\ input.issued < MaxTokens
    /\ IF \E k \in 1..Len(heap.users) : heap.users[k].id = user_id
       THEN \E k \in {Min({k \in 1..Len(heap.users) : heap.users[k].id = user_id})} :
                /\ heap' = [heap EXCEPT !.users[k].token = <<input.issued + 1>>]
                /\ input' = [input EXCEPT !.issued = @ + 1]
                /\ ret' = [op |-> "regenerate_user_token", status |-> 200,
                           old |-> heap.users[k].token]
       ELSE /\ UNCHANGED <<heap, input>>
            /\ ret' = [op |-> "regenerate_user_token", status |-> 404, old |-> <<>>]
    /\ UNCHANGED pc
    /\ UNCHANGED geoVars
    /\ UNCHANGED passVars

\* PUT /api/users/{user_id}: a field of the request that is None (<<>>) is
\* left as it is.
UpdateUser(user_id, expire_time, enabled) ==
    /\ pc = "serve"
    /\ IF \E k \in 1..Len(heap.users) : heap.users[k].id = user_id
       THEN \E k \in {Min({k \in 1..Len(heap.users) : heap.users[k].id = user_id})} :
                /\ heap' = [heap EXCEPT
                       !.users[k].expire_time = IF expire_time # <<>> THEN expire_time ELSE @,
                       !.users[k].enabled = IF enabled # <<>> THEN enabled[1] ELSE @]
                /\ ret' = [op |-> "update_user", status |-> 200]
       ELSE /\ UNCHANGED heap
            /\ ret' = [op |-> "update_user", status |-> 404]
    /\ UNCHANGED <<input, pc>>
    /\ UNCHANGED geoVars
    /\ UNCHANGED passVars

\* time.time() grows.
Tick ==
    /\ pc = "serve"
    /\ input.time < MaxTime
    /\ input' = [input EXCEPT !.time = @ + 1]
    /\ UNCHANGED <<heap, ret, pc>>
    /\ UNCHANGED geoVars
    /\ UNCHANGED passVars

NextToken ==
    \/ RegenerateSubToken
    \/ \E user_id \in {<<"u">>, <<"v">>} : RegenerateUserToken(user_id)
    \/ \E user_id \in {<<"u">>, <<"v">>}, expire_time \in EXPIRE_TIMES \cup {<<>>},
          enabled \in {<<>>, <<TRUE>>, <<FALSE>>} : UpdateUser(user_id, expire_time, enabled)
    \/ Tick
    \/ \E token \in {<<n>> : n \in 1..MaxTokens} \cup {<<>>} : GetMergedSubscription(token)

SpecToken == InitToken /\ [][NextToken]_vars

Requested == ret # <<>> /\ ret.op = "get_merged_subscription"

\* The users of the configuration that have the token of the last request.
UsersOfToken == {k \in 1..Len(heap.users) : heap.users[k].token = ret.token}

IsAdminToken == heap.sub_token # <<>> /\ ret.token = heap.sub_token

\* An expire_time that is 0, or not before the time of the request.
NotExpired(expire_time) ==
    expire_time # <<>> /\ (expire_time[1] = 0 \/ expire_time[1] >= ret.now)

\* C25: /sub returns node data only for a valid token: a request is served
\* only if its token is the configured admin sub_token or the token of a user
\* who is enabled and not expired (expire_time 0 or in the future); a missing
\* or unknown token is answered 401, the token of a disabled or expired user
\* 403, and a token that was replaced by regenerate-token is not served.
C25_ServedOnlyForValidToken ==
    /\ Served =>
           \/ IsAdminToken
           \/ \E k \in UsersOfToken :
                  heap.users[k].enabled /\ NotExpired(heap.users[k].expire_time)
    /\ Requested /\ ~IsAdminToken /\ UsersOfToken = {} => ret.status = 401
    /\ Requested /\ ~IsAdminToken /\ UsersOfToken # {}
           /\ (\A k \in UsersOfToken :
                   \/ ~heap.users[k].enabled
                   \/ heap.users[k].expire_time # <<>> /\ ~NotExpired(heap.users[k].expire_time))
           => ret.status = 403

\* ------------------------------------------------------------------------
\* server.py: the admin session. config['auth'] is a record: password_hash
\* (<<>> while none is set), sub_token, and sessions, a dict from session
\* token to expiry. An Authorization header is <<n>>, or <<>> when the request
\* has none.

MaxIssued == 5

\* time.time() + 86400, in ticks of the model's clock.
SessionTicks == 2

PASSWORDS == {<<"p">>, <<"q">>}

hash_password(password) == <<"sha256">> \o password

DictDel(d, k) == SelectSeq(d, LAMBDA e : e[1] # k)

\* verify_session that takes a session whatever its expiry.
verify_session_NoExpiry(auth, authorization, now) ==
    IF auth.password_hash = <<>> THEN [status |-> 200, auth |-> auth]
    ELSE IF authorization = <<>> THEN [status |-> 401, auth |-> auth]
    ELSE IF DictHas(auth.sessions, authorization)
    THEN [status |-> 200, auth |-> auth]
    ELSE [status |-> 401, auth |-> auth]

\* verify_session: the status (200 when it returns True) and auth as it is
\* saved: a session found expired is deleted.
verify_session(auth, authorization, now) ==
    IF auth.password_hash = <<>> THEN [status |-> 200, auth |-> auth]
    ELSE IF authorization = <<>> THEN [status |-> 401, auth |-> auth]
    ELSE IF DictHas(auth.sessions, authorization)
    THEN IF DictGet(auth.sessions, authorization, 0) > now
         THEN [status |-> 200, auth |-> auth]
         ELSE [status |-> 401,
               auth |-> [auth EXCEPT !.sessions = DictDel(@, authorization)]]
    ELSE [status |-> 401, auth |-> auth]

\* Before setup: no config.json. input keeps the clock, the number of tokens
\* generate_token gave, and what happened to the session tokens: when each was
\* issued, which were logged out, which were in the table that
\* change-password replaced.
InitSession ==
    /\ Imported /\ NoPass
    /\ heap = [password_hash |-> <<>>, sub_token |-> <<>>, sessions |-> <<>>]
    /\ input = [time |-> 1, issued |-> 0, sessions_issued |-> {}, logged_out |-> {},
                replaced |-> {}]
    /\ ret = <<>>
    /\ pc = "serve"

SessionUnchanged ==
    /\ UNCHANGED pc
    /\ UNCHANGED geoVars
    /\ UNCHANGED passVars

\* POST /api/auth/setup
SetupPassword(password) ==
    /\ pc = "serve"
    /\ input.issued + 2 <= MaxIssued
    /\ IF heap.password_hash # <<>>
       THEN /\ ret' = [op |-> "setup_password", status |-> 400]
            /\ UNCHANGED <<heap, input>>
       ELSE /\ heap' = [password_hash |-> hash_password(password),
                        sub_token |-> <<input.issued + 2>>,
                        sessions |-> << <<<<input.issued + 1>>, input.time + SessionTicks>> >>]
            /\ input' = [input EXCEPT !.issued = @ + 2,
                                      !.sessions_issued =
                                          @ \cup {<<<<input.issued + 1>>, input.time>>}]
            /\ ret' = [op |-> "setup_password", status |-> 200]
    /\ SessionUnchanged

\* POST /api/auth/login
Login(password) ==
    /\ pc = "serve"
    /\ input.issued + 1 <= MaxIssued
    /\ IF heap.password_hash = <<>>
       THEN /\ ret' = [op |-> "login", status |-> 400]
            /\ UNCHANGED <<heap, input>>
       ELSE IF hash_password(password) # heap.password_hash
       THEN /\ ret' = [op |-> "login", status |-> 401]
            /\ UNCHANGED <<heap, input>>
       ELSE /\ heap' = [heap EXCEPT !.sessions =
                            DictSet(@, <<input.issued + 1>>, input.time + SessionTicks)]
            /\ input' = [input EXCEPT !.issued = @ + 1,
                                      !.sessions_issued =
                                          @ \cup {<<<<input.issued + 1>>, input.time>>}]
            /\ ret' = [op |-> "login", status |-> 200]
    /\ SessionUnchanged

\* POST /api/auth/logout
Logout(authorization) ==
    /\ pc = "serve"
    /\ IF authorization # <<>> /\ DictHas(heap.sessions, authorization)
       THEN heap' = [heap EXCEPT !.sessions = DictDel(@, authorization)]
       ELSE UNCHANGED heap
    /\ input' = [input EXCEPT !.logged_out =
                     IF \E s \in input.sessions_issued : s[1] = authorization
                     THEN @ \cup {authorization} ELSE @]
    /\ ret' = [op |-> "logout", status |-> 200]
    /\ SessionUnchanged

\* POST /api/auth/change-password, which depends on verify_session. The
\* default of .get('sub_token', generate_token()) is evaluated whether it is
\* needed or not.
ChangePassword(authorization, password) ==
    /\ pc = "serve"
    /\ input.issued + 2 <= MaxIssued
    /\ \E v \in {verify_session(heap, authorization, input.time)} :
           /\ ret' = [op |-> "change_password", status |-> v.status,
                      authorization |-> authorization,
                      password_set |-> heap.password_hash # <<>>]
           /\ IF v.status # 200
              THEN /\ heap' = v.auth
                   /\ UNCHANGED input
              ELSE /\ heap' = [password_hash |-> hash_password(password),
                               sub_token |-> IF heap.sub_token # <<>> THEN heap.sub_token
                                             ELSE <<input.issued + 2>>,
                               sessions |-> << <<<<input.issued + 1>>,
                                               input.time + SessionTicks>> >>]
                   /\ input' = [input EXCEPT
                          !.issued = @ + 2,
                          !.sessions_issued = @ \cup {<<<<input.issued + 1>>, input.time>>},
                          !.replaced = @ \cup {heap.sessions[k][1] : k \in 1..Len(heap.sessions)}]
    /\ SessionUnchanged

\* A request to an endpoint that depends on verify_session and changes
\* nothing itself (GET /api/users).
ProtectedRequest(authorization) ==
    /\ pc = "serve"
    /\ \E v \in {verify_session(heap, authorization, input.time)} :
           /\ ret' = [op |-> "get_users", status |-> v.status,
                      authorization |-> authorization,
                      password_set |-> heap.password_hash # <<>>]
           /\ heap' = v.auth
    /\ UNCHANGED input
    /\ SessionUnchanged

\* time.time() grows.
SessionTick ==
    /\ pc = "serve"
    /\ input.time < MaxTime
    /\ input' = [input EXCEPT !.time = @ + 1]
    /\ ret' = [op |-> "tick", status |-> 200]
    /\ UNCHANGED heap
    /\ SessionUnchanged

AUTHORIZATIONS == {<<n>> : n \in 1..MaxIssued} \cup {<<>>}

NextSession ==
    \/ \E password \in PASSWORDS : SetupPassword(password)
    \/ \E password \in PASSWORDS : Login(password)
    \/ \E authorization \in AUTHORIZATIONS : Logout(authorization)
    \/ \E authorization \in AUTHORIZATIONS, password \in PASSWORDS :
           ChangePassword(authorization, password)
    \/ \E authorization \in AUTHORIZATIONS : ProtectedRequest(authorization)
    \/ SessionTick

SpecSession == InitSession /\ [][NextSession]_vars

\* The last step ran a protected endpoint while a password was set.
RanProtected ==
    /\ ret # <<>>
    /\ ret.op \in {"get_users", "change_password"}
    /\ ret.status = 200
    /\ ret.password_set

\* C26: once a password is set, a protected endpoint runs only for a request
\* whose Authorization is a session token that setup, login or
\* change-password issued less than the session's lifetime ago, that was not
\* logged out and that was not in a session table change-password replaced.
C26_ProtectedOnlyWithLiveSession ==
    RanProtected =>
        /\ \E s \in input.sessions_issued :
               s[1] = ret.authorization /\ input.time < s[2] + SessionTicks
        /\ ret.authorization \notin input.logged_out
        /\ ret.op = "get_users" => ret.authorization \notin input.replaced

\* A protected endpoint ran for a session of a login, after another session
\* was logged out and time passed.
C26_Witness ==
    /\ RanProtected
    /\ ret.op = "get_users"
    /\ input.logged_out # {}
    /\ input.time > 1
    /\ Len(heap.sessions) >= 1

\* ------------------------------------------------------------------------
\* server.py: config.json under two requests that change it. The handlers are
\* plain def functions, which the framework runs on a thread pool; each one
\* calls load_config, changes its copy and calls save_config, and nothing
\* locks the file.

REQUESTS == {"add_subscription", "create_user", "login", "add_custom_node"}

\* The default of load_config.
DEFAULT_CONFIG ==
    [password_set |-> FALSE, sessions |-> <<>>, subscriptions |-> <<>>, custom_nodes |-> <<>>,
     users |-> <<>>]

\* load_config: what json.load gives, or the default when the file cannot be
\* parsed (the bare except), as while a save_config has opened it for writing.
load_config(file) == IF file.readable THEN file.config ELSE DEFAULT_CONFIG

\* What a handler changes in its copy; thread t adds an item named after it.
Changed(request, config, t) ==
    CASE request = "add_subscription" -> [config EXCEPT !.subscriptions = Append(@, t)]
      [] request = "create_user" -> [config EXCEPT !.users = Append(@, t)]
      [] request = "login" -> [config EXCEPT !.sessions = Append(@, t)]
      [] request = "add_custom_node" -> [config EXCEPT !.custom_nodes = Append(@, t)]

\* The change of a request is in a configuration.
HasChange(request, config, t) ==
    CASE request = "add_subscription" -> \E k \in 1..Len(config.subscriptions) : config.subscriptions[k] = t
      [] request = "create_user" -> \E k \in 1..Len(config.users) : config.users[k] = t
      [] request = "login" -> \E k \in 1..Len(config.sessions) : config.sessions[k] = t
      [] request = "add_custom_node" -> \E k \in 1..Len(config.custom_nodes) : config.custom_nodes[k] = t

\* config.json after setup (one session, 0); two requests arrive. heap is the
\* file and, per thread, where it is and its copy of the configuration; ret
\* the status of each request once it is answered.
InitConfig ==
    /\ Imported /\ NoPass
    /\ input \in [THREADS -> REQUESTS]
    /\ heap = [file |-> [readable |-> TRUE,
                         config |-> [DEFAULT_CONFIG EXCEPT !.password_set = TRUE,
                                                           !.sessions = <<0>>]],
               threads |-> [t \in THREADS |-> [at |-> "load", config |-> DEFAULT_CONFIG]]]
    /\ ret = [t \in THREADS |-> 0]
    /\ pc = "threads"

ConfigUnchanged ==
    /\ UNCHANGED <<input, pc>>
    /\ UNCHANGED geoVars
    /\ UNCHANGED passVars

\* config = load_config(). login answers 400 when its copy has no
\* password_hash.
LoadConfig(t) ==
    /\ pc = "threads"
    /\ heap.threads[t].at = "load"
    /\ \E config \in {load_config(heap.file)} :
           IF input[t] = "login" /\ ~config.password_set
           THEN /\ heap' = [heap EXCEPT !.threads[t] = [at |-> "done", config |-> config]]
                /\ ret' = [ret EXCEPT ![t] = 400]
           ELSE /\ heap' = [heap EXCEPT !.threads[t] = [at |-> "open", config |-> config]]
                /\ UNCHANGED ret
    /\ ConfigUnchanged

\* save_config: open(CONFIG_FILE, 'w') truncates the file.
OpenConfig(t) ==
    /\ pc = "threads"
    /\ heap.threads[t].at = "open"
    /\ heap' = [heap EXCEPT !.file.readable = FALSE, !.threads[t].at = "dump"]
    /\ UNCHANGED ret
    /\ ConfigUnchanged

\* save_config: json.dump writes the changed copy, and the request is answered.
DumpConfig(t) ==
    /\ pc = "threads"
    /\ heap.threads[t].at = "dump"
    /\ heap' = [heap EXCEPT !.file = [readable |-> TRUE,
                                      config |-> Changed(input[t], heap.threads[t].config, t)],
                            !.threads[t].at = "done"]
    /\ ret' = [ret EXCEPT ![t] = 200]
    /\ ConfigUnchanged

NextConfig ==
    \E t \in THREADS : LoadConfig(t) \/ OpenConfig(t) \/ DumpConfig(t)

SpecConfig == InitConfig /\ [][NextConfig]_vars

\* C27: no update to the persisted configuration is lost when two requests
\* that change it run concurrently: when both are answered, config.json holds
\* the change of each request that succeeded.
C27_NoLostUpdate ==
    (\A t \in THREADS : heap.threads[t].at = "done") =>
        \A t \in THREADS : ret[t] = 200 => HasChange(input[t], heap.file.config, t)

\* ------------------------------------------------------------------------
\* server.py: the order of the sources

MaxSubs == 3

MaxOrderLen == 3

SUB_IDS == {<<"a">>, <<"b">>, <<"c">>}

\* What a request names: subscriptions, the custom nodes, an id nothing has.
ORDER_IDS == {<<"a">>, <<"b">>, CUSTOM_NODES, <<"n">>}

ORDERS == UNION {[1..n -> ORDER_IDS] : n \in 0..MaxOrderLen}

\* d.values() of a dict
DictValues(d) == [i \in 1..Len(d) |-> d[i][2]]

\* The loop both functions have: every id of the order that is (still) a key
\* of the dict is popped and its value appended.
RECURSIVE PopInOrder(_, _, _, _)
PopInOrder(order, i, d, result) ==
    IF i > Len(order) THEN [d |-> d, result |-> result]
    ELSE IF DictHas(d, order[i])
    THEN PopInOrder(order, i + 1, DictDel(d, order[i]),
                    Append(result, DictGet(d, order[i], <<>>)))
    ELSE PopInOrder(order, i + 1, d, result)

\* {s['id']: s for s in subscriptions}
RECURSIVE ById(_, _, _)
ById(subscriptions, i, d) ==
    IF i > Len(subscriptions) THEN d
    ELSE ById(subscriptions, i + 1, DictSet(d, subscriptions[i].id, subscriptions[i]))

\* reorder_subscriptions that looks the ids up without popping them.
reorder_subscriptions_NoPop(subscriptions, order) ==
    [k \in 1..Len(SelectSeq(order, LAMBDA id : DictHas(ById(subscriptions, 1, <<>>), id))) |->
        DictGet(ById(subscriptions, 1, <<>>),
                SelectSeq(order, LAMBDA id : DictHas(ById(subscriptions, 1, <<>>), id))[k],
                <<>>)]
    \o DictValues(ById(subscriptions, 1, <<>>))

\* reorder_subscriptions: config['subscriptions'] as it is saved.
reorder_subscriptions(subscriptions, order) ==
    LET Extended(popped) == popped.result \o DictValues(popped.d)
    IN  Extended(PopInOrder(order, 1, ById(subscriptions, 1, <<>>), <<>>))

\* get_ordered_sources: the ids of the sources of the result.
get_ordered_sources(config) ==
    LET Extended(popped) == popped.result \o DictValues(popped.d)
        Source(s) == [type |-> "subscription", id |-> s.id, data |-> s]
        WithCustom(all_sources) ==
            IF config.custom_nodes # <<>>
            THEN DictSet(all_sources, CUSTOM_NODES,
                         [type |-> "custom", id |-> CUSTOM_NODES, data |-> config.custom_nodes])
            ELSE all_sources
    IN  Extended(PopInOrder(config.source_order, 1,
                            WithCustom(ById([k \in 1..Len(config.subscriptions) |->
                                                Source(config.subscriptions[k])], 1, <<>>)),
                            <<>>))

\* config.json after some add_subscription (the ids, made of the time in
\* milliseconds, differ) and add_custom_node or none.
InitReorder ==
    /\ Imported /\ NoPass
    /\ \E n \in 0..MaxSubs : \E ids \in [1..n -> SUB_IDS] :
           /\ \A i, j \in 1..n : ids[i] = ids[j] => i = j
           /\ \E custom_nodes \in {<<>>, <<[name |-> <<"z">>]>>} :
                  heap = [subscriptions |-> [k \in 1..n |->
                                                [id |-> ids[k], name |-> <<"P">> \o ids[k],
                                                 enabled |-> ids[k] # <<"b">>]],
                          custom_nodes |-> custom_nodes,
                          source_order |-> <<>>]
    /\ input = <<>>
    /\ ret = <<>>
    /\ pc = "serve"

\* PUT /api/subscriptions/reorder
ReorderSubscriptions(order) ==
    /\ pc = "serve"
    /\ heap' = [heap EXCEPT !.source_order = order,
                            !.subscriptions = reorder_subscriptions(@, order)]
    /\ ret' = [op |-> "reorder_subscriptions", status |-> 200, order |-> order,
               before |-> heap.subscriptions]
    /\ ServerUnchanged

\* get_ordered_sources(), over the configuration load_config gives
GetOrderedSources ==
    /\ pc = "serve"
    /\ ret' = [op |-> "get_ordered_sources", status |-> 200,
               sources |-> get_ordered_sources(heap)]
    /\ UNCHANGED heap
    /\ ServerUnchanged

NextReorder ==
    \/ \E order \in ORDERS : ReorderSubscriptions(order)
    \/ GetOrderedSources

SpecReorder == InitReorder /\ [][NextReorder]_vars

\* The place of a subscription in a list
PlaceIn(subscriptions, s) == Min({k \in 1..Len(subscriptions) : subscriptions[k] = s})

\* The ids of the subscriptions an order names, each at its first place.
NamedIn(order, subscriptions) ==
    SelectSeq([k \in 1..Len(order) |->
                  IF \A j \in 1..(k - 1) : order[j] # order[k] THEN order[k] ELSE <<>>],
              LAMBDA id : \E k \in 1..Len(subscriptions) : subscriptions[k].id = id)

\* C29: reorder_subscriptions only permutes, whatever the order list names:
\* the stored subscriptions are those before the call, each once and with
\* unchanged fields; those the list names come first, in list order, and the
\* rest follow in their previous relative order. get_ordered_sources returns
\* every source exactly once.
C29_ReorderOnlyPermutes ==
    /\ ret # <<>> /\ ret.op = "reorder_subscriptions" =>
           /\ Len(heap.subscriptions) = Len(ret.before)
           /\ \A k \in 1..Len(ret.before) :
                  Cardinality({j \in 1..Len(heap.subscriptions) :
                                  heap.subscriptions[j] = ret.before[k]}) = 1
           /\ \A k \in 1..Len(NamedIn(ret.order, ret.before)) :
                  /\ k <= Len(heap.subscriptions)
                  /\ heap.subscriptions[k].id = NamedIn(ret.order, ret.before)[k]
           /\ \A i, j \in (Len(NamedIn(ret.order, ret.before)) + 1)..Len(heap.subscriptions) :
                  i < j => PlaceIn(ret.before, heap.subscriptions[i])
                               < PlaceIn(ret.before, heap.subscriptions[j])
    /\ ret # <<>> /\ ret.op = "get_ordered_sources" =>
           /\ \A k \in 1..Len(heap.subscriptions) :
                  Cardinality({j \in 1..Len(ret.sources) :
                                  ret.sources[j].data = heap.subscriptions[k]}) = 1
           /\ Cardinality({j \in 1..Len(ret.sources) : ret.sources[j].id = CUSTOM_NODES})
                  = IF heap.custom_nodes # <<>> THEN 1 ELSE 0
           /\ Len(ret.sources) = Len(heap.subscriptions)
                                     + IF heap.custom_nodes # <<>> THEN 1 ELSE 0

\* A reorder whose list names a subscription twice and an id nothing has,
\* leaves one subscription out, and moves a subscription.
C29_Witness ==
    /\ ret # <<>> /\ ret.op = "reorder_subscriptions"
    /\ Len(ret.before) = 3
    /\ \E i, j \in 1..Len(ret.order) : i < j /\ ret.order[i] = ret.order[j]
    /\ \E i \in 1..Len(ret.order) : ret.order[i] = <<"n">>
    /\ Len(NamedIn(ret.order, ret.before)) = 1
    /\ heap.subscriptions # ret.before

\* ------------------------------------------------------------------------
\* The sniffer's two hysteria2 schemes

\* The body X of a line hy2://X
Hy2Body(line) == From(line, Len(HY2_SCHEME) + 1)

\* C30: in the sniffer the short alias and the long scheme name are
\* equivalent: for every body X, the line hy2://X decodes to the same record
\* (or to none) as the line hysteria2://X.
C30_Hy2SameAsHysteria2 ==
    pc = "done" /\ ret.op = "parse_hysteria2" /\ StartsWith(input.link, HY2_SCHEME) =>
        ret = [op |-> "parse_hysteria2"]
              @@ parse_hysteria2(HYSTERIA2_SCHEME \o Hy2Body(input.link))
====
